---- MODULE Spec2Model ----
(***************************************************************************)
(* The issue-credential v2 protocol engine (V2CredentialService) of        *)
(* aries-framework-javascript: the exchange state machine, the resolution  *)
(* of format services, and the auto-accept evaluation.                     *)
(*                                                                         *)
(* One service instance per agent.  The state of an instance is its        *)
(* credential repository (records) and its DIDComm message repository      *)
(* (didcomm).  Every public method of the service is one action that       *)
(* always terminates, either with a result ("ok") or by throwing           *)
(* ("error"); what the last call did goes to `last` and `events`.          *)
(***************************************************************************)
EXTENDS Naturals, Sequences, FiniteSets, TLC

VARIABLES
    records,   \* [agent -> Seq(record)]: credential repository, record id = index
    didcomm,   \* [agent -> Seq([type -> optional message])]: messages by record id
    config,    \* credentialsModuleConfig.autoAcceptCredentials of the instances
    last,      \* the last call: operation, agent, outcome, record, repository calls
    used,      \* the format services the last call handed to the coordinator
    events,    \* the state-changed events the last call emitted
    step,      \* position in the end-to-end scenario (0 outside it)
    auto,      \* the last auto-accept evaluation or read-only projection
    race       \* the inbound handler invocations in flight, each at an await

vars == <<records, didcomm, config, last, used, events, step, auto, race>>

-----------------------------------------------------------------------------
(* Bounds of the model.                                                    *)

MaxRecords == 1
MaxPairRecords == 2
MaxThreads == 2
MaxInFlight == 2
MaxRounds == 3

-----------------------------------------------------------------------------
(* Vocabulary.                                                             *)

None == "none"

Agents == {"faber", "alice"}

ThreadIds == 1..MaxThreads

ConnIds == {"c1", "c2"}

ProposalSent == "proposal-sent"
ProposalReceived == "proposal-received"
OfferSent == "offer-sent"
OfferReceived == "offer-received"
RequestSent == "request-sent"
RequestReceived == "request-received"
CredentialIssued == "credential-issued"
CredentialReceived == "credential-received"
Done == "done"
Abandoned == "abandoned"

CredentialState ==
    {ProposalSent, ProposalReceived, OfferSent, OfferReceived, RequestSent,
     RequestReceived, CredentialIssued, CredentialReceived, Done, Abandoned}

TerminalStates == {Done, Abandoned}

Always == "always"
ContentApproved == "contentApproved"
Never == "never"

AutoAcceptCredential == {Always, ContentApproved, Never}

MessageTypes == {"proposal", "offer", "request", "credential", "ack"}

\* An optional value is a sequence of length at most one.
Absent == <<>>
Some(x) == <<x>>
IsPresent(o) == Len(o) > 0
Get(o) == o[1]

-----------------------------------------------------------------------------
(* Format services and their registry.                                     *)

\* formatServiceMap: the two services the constructor registers, by formatKey.
formatServiceMap == {"indy", "jsonld"}

\* The order of Object.values(formatServiceMap): insertion order of the reduce.
formatServiceOrder == <<"indy", "jsonld">>

\* supportsFormat: the wire identifiers a service accepts (a family per key).
supportsFormat(service, format) ==
    CASE service = "indy" -> format \in {"hlindy/a", "hlindy/b"}
      [] service = "jsonld" -> format \in {"aries/ld"}
      [] OTHER -> FALSE

\* The format identifier a service writes into the messages it creates.
createdFormat(service) ==
    IF service = "indy" THEN "hlindy/b" ELSE "aries/ld"

\* getFormatServiceForFormatKey: the service registered under the key, or none.
getFormatServiceForFormatKey(formatKey) ==
    IF formatKey \in formatServiceMap THEN Some(formatKey) ELSE Absent

\* getFormatServiceForFormat: the first registered service that supports it.
getFormatServiceForFormat(format) ==
    LET hits == {i \in 1..Len(formatServiceOrder) :
                    supportsFormat(formatServiceOrder[i], format)}
    IN  IF hits = {} THEN Absent
        ELSE Some(formatServiceOrder[CHOOSE i \in hits : \A j \in hits : i <= j])

\* Array.from(new Set(...)) over the resolved services: insertion order, no
\* duplicates, unresolved entries skipped.
RECURSIVE ArrayFromSet(_, _)
ArrayFromSet(resolved, acc) ==
    IF resolved = <<>> THEN acc
    ELSE LET s == Head(resolved)
             seen == {acc[i] : i \in 1..Len(acc)}
         IN  ArrayFromSet(Tail(resolved),
                          IF IsPresent(s) /\ Get(s) \notin seen
                          THEN Append(acc, Get(s)) ELSE acc)

getFormatServicesFromMessage(messageFormats) ==
    ArrayFromSet([i \in 1..Len(messageFormats) |->
                     getFormatServiceForFormat(messageFormats[i])], <<>>)

\* Mutant: a key that is not registered makes the whole resolution come out
\* empty.
getFormatServices_UnknownFails(credentialFormats) ==
    IF \E i \in 1..Len(credentialFormats) :
          ~IsPresent(getFormatServiceForFormatKey(credentialFormats[i]))
    THEN <<>>
    ELSE credentialFormats

\* credentialFormats is given as the sequence of its Object.keys.
getFormatServices(credentialFormats) ==
    ArrayFromSet([i \in 1..Len(credentialFormats) |->
                     getFormatServiceForFormatKey(credentialFormats[i])], <<>>)

Range(s) == {s[i] : i \in 1..Len(s)}

\* Mutant: an empty set of format services is let through.
NoSupportedFormats_Never(formatServices) == FALSE

\* if (formatServices.length === 0) throw: no supported formats.
NoSupportedFormats(formatServices) == Len(formatServices) = 0


-----------------------------------------------------------------------------
(* Records, messages and the two repositories.                             *)

CredentialExchangeRecord(connectionId, threadId, state, autoAcceptCredential) ==
    [threadId |-> threadId, connectionId |-> connectionId, state |-> state,
     autoAcceptCredential |-> autoAcceptCredential, protocolVersion |-> "v2",
     errorMessage |-> Absent]

\* A protocol message: its ordered format specs (each with its attachment) and
\* its optional credential preview (an attribute list).
Message(formats, preview) == [formats |-> formats, preview |-> preview]

NoMessages == [t \in MessageTypes |-> Absent]

Ids(a) == 1..Len(records[a])

\* findAgentMessage(associatedRecordId, messageClass): the message or none.
findAgentMessage(a, id, type) == didcomm[a][id][type]

\* The query {threadId, connectionId}: an absent connection id is no criterion.
\* Mutant: the lookup by thread and connection finds nothing.
Matching_None(a, threadId, connectionId) == {}

\* Mutant: the connection of the message is no criterion of the lookup.
Matching_ThreadOnly(a, threadId, connectionId) ==
    {i \in Ids(a) : records[a][i].threadId = threadId}

Matching(a, threadId, connectionId) ==
    {i \in Ids(a) :
        /\ records[a][i].threadId = threadId
        /\ (connectionId # None => records[a][i].connectionId = connectionId)}

\* uuid(): a thread id no record of any agent carries.
UsedThreads == UNION {{records[a][i].threadId : i \in Ids(a)} : a \in Agents}
FreshThreads == ThreadIds \ UsedThreads
uuid == CHOOSE t \in FreshThreads : \A u \in FreshThreads : t <= u

\* The message a coordinator create* assembles: one spec per format service.
CoordinatorMessage(formatServices, preview) ==
    Message([i \in 1..Len(formatServices) |-> createdFormat(formatServices[i])],
            preview)

\* getAttachmentForService finds a spec the service supports (else it throws).
HasAttachmentForService(service, formats) ==
    \E i \in 1..Len(formats) : supportsFormat(service, formats[i])

-----------------------------------------------------------------------------
(* How a call ends.                                                        *)

Call(op, a, res, error, id, saves, updates) ==
    [op |-> op, agent |-> a, res |-> res, error |-> error, id |-> id,
     saves |-> saves, updates |-> updates]

\* The call throws `error` before anything is persisted.
Throw(op, a, id, error) ==
    /\ last' = Call(op, a, "error", error, id, 0, 0)
    /\ events' = <<>>
    /\ used' = <<>>
    /\ UNCHANGED <<records, didcomm>>

StateChangedEvent(id, record, previousState) ==
    [id |-> id, credentialRecord |-> record, previousState |-> previousState]

\* Mutant: the coordinator hands the message back without storing it.
StoreMessage_NotStored(a, id, type, message, formatServices) ==
    /\ UNCHANGED didcomm
    /\ used' = formatServices

\* saveOrUpdateAgentMessage by the coordinator, for a record already stored.
StoreMessage(a, id, type, message, formatServices) ==
    /\ didcomm' = [didcomm EXCEPT ![a][id][type] = Some(message)]
    /\ used' = formatServices

\* Mutant: the new record is saved and no event is emitted for it.
SaveNew_NoEvent(op, a, record, type, message, formatServices) ==
    /\ used' = formatServices
    /\ records' = [records EXCEPT ![a] = Append(@, record)]
    /\ didcomm' = [didcomm EXCEPT
                     ![a] = Append(@, [NoMessages EXCEPT ![type] = Some(message)])]
    /\ events' = <<>>
    /\ last' = Call(op, a, "ok", "none", Len(records[a]) + 1, 1, 0)

\* Mutant: the event for a new record names the state of the record as the
\* previous state.
SaveNew_PreviousState(op, a, record, type, message, formatServices) ==
    /\ used' = formatServices
    /\ records' = [records EXCEPT ![a] = Append(@, record)]
    /\ didcomm' = [didcomm EXCEPT
                     ![a] = Append(@, [NoMessages EXCEPT ![type] = Some(message)])]
    /\ events' = <<StateChangedEvent(Len(records[a]) + 1, record, record.state)>>
    /\ last' = Call(op, a, "ok", "none", Len(records[a]) + 1, 1, 0)

\* credentialRepository.save of a new record (whose first message the
\* coordinator stored) and the event with previousState null.
SaveNew(op, a, record, type, message, formatServices) ==
    /\ used' = formatServices
    /\ records' = [records EXCEPT ![a] = Append(@, record)]
    /\ didcomm' = [didcomm EXCEPT
                     ![a] = Append(@, [NoMessages EXCEPT ![type] = Some(message)])]
    /\ events' = <<StateChangedEvent(Len(records[a]) + 1, record, None)>>
    /\ last' = Call(op, a, "ok", "none", Len(records[a]) + 1, 1, 0)

\* updateState: set the state, update the record, emit the event.
updateState(op, a, id, record, newState) ==
    LET updated == [record EXCEPT !.state = newState]
    IN  /\ records' = [records EXCEPT ![a][id] = updated]
        /\ events' = <<StateChangedEvent(id, updated, record.state)>>
        /\ last' = Call(op, a, "ok", "none", id, 0, 1)

\* The coordinator's process*: every service must find its attachment
\* (getAttachmentForService) and accept the payload (formatOk).
CoordinatorProcessError(formatServices, formats, formatOk) ==
    IF \E i \in 1..Len(formatServices) :
          ~HasAttachmentForService(formatServices[i], formats)
    THEN "attachment"
    ELSE IF ~formatOk THEN "format-service" ELSE "none"

\* Mutant: the coordinator builds the answer without looking the services'
\* attachments up in the message answered.
CoordinatorAcceptError_NoLookup(formatServices, formats, formatOk) ==
    IF ~formatOk THEN "format-service" ELSE "none"

\* The coordinator's accept*: every service must find its attachment in the
\* message answered (getAttachmentForService) and build its payload
\* (formatOk).
CoordinatorAcceptError(formatServices, formats, formatOk) ==
    IF \E i \in 1..Len(formatServices) :
          ~HasAttachmentForService(formatServices[i], formats)
    THEN "attachment"
    ELSE IF ~formatOk THEN "format-service" ELSE "none"

-----------------------------------------------------------------------------
(* Operations that start an exchange.                                      *)

createProposal(a, connection, credentialFormats, autoAcceptCredential, preview, formatOk) ==
    LET formatServices == getFormatServices(credentialFormats)
        credentialRecord ==
            CredentialExchangeRecord(connection, uuid, ProposalSent,
                                     autoAcceptCredential)
    IN  /\ FreshThreads # {}
        /\ IF NoSupportedFormats(formatServices)
           THEN Throw("createProposal", a, 0, "formats")
           ELSE IF ~formatOk THEN Throw("createProposal", a, 0, "format-service")
           ELSE SaveNew("createProposal", a, credentialRecord, "proposal",
                        CoordinatorMessage(formatServices, preview),
                        formatServices)

createOffer(a, connection, credentialFormats, autoAcceptCredential, preview, formatOk) ==
    LET formatServices == getFormatServices(credentialFormats)
        credentialRecord ==
            CredentialExchangeRecord(connection, uuid, OfferSent,
                                     autoAcceptCredential)
    IN  /\ FreshThreads # {}
        /\ IF NoSupportedFormats(formatServices)
           THEN Throw("createOffer", a, 0, "formats")
           ELSE IF ~formatOk THEN Throw("createOffer", a, 0, "format-service")
           ELSE SaveNew("createOffer", a, credentialRecord, "offer",
                        CoordinatorMessage(formatServices, preview),
                        formatServices)

createRequest(a, connection, credentialFormats, autoAcceptCredential, formatOk) ==
    LET formatServices == getFormatServices(credentialFormats)
        credentialRecord ==
            CredentialExchangeRecord(connection, uuid, RequestSent,
                                     autoAcceptCredential)
    IN  /\ FreshThreads # {}
        /\ IF NoSupportedFormats(formatServices)
           THEN Throw("createRequest", a, 0, "formats")
           ELSE IF ~formatOk THEN Throw("createRequest", a, 0, "format-service")
           ELSE SaveNew("createRequest", a, credentialRecord, "request",
                        CoordinatorMessage(formatServices, Absent),
                        formatServices)

-----------------------------------------------------------------------------
(* The state each transition operation asserts and the state it sets.     *)

processProposalAssertState == OfferSent
processProposalState == ProposalReceived

acceptProposalAssertState == ProposalReceived
acceptProposalState == OfferSent

negotiateProposalAssertState == ProposalReceived
\* Mutant: the counter-offer leaves the record in proposal-sent.
negotiateProposalState_ProposalSent == ProposalSent

negotiateProposalState == OfferSent

\* Mutant: an offer is taken on a record that has itself sent an offer.
processOfferAssertState_OfferSent == OfferSent

processOfferAssertState == ProposalSent
processOfferState == OfferReceived

acceptOfferAssertState == OfferReceived
acceptOfferState == RequestSent

negotiateOfferAssertState == OfferReceived
\* Mutant: the counter-proposal leaves the record in a state of the issuer.
negotiateOfferState_OfferSent == OfferSent

negotiateOfferState == ProposalSent

processRequestAssertState == OfferSent
processRequestState == RequestReceived

\* Mutant: a request is answered once more on an exchange that is done.
acceptRequestAssertState_Done == Done

acceptRequestAssertState == RequestReceived
acceptRequestState == CredentialIssued

processCredentialAssertState == RequestSent
\* Mutant: the credential is processed and the record is left in request-sent.
processCredentialState_RequestSent == RequestSent

processCredentialState == CredentialReceived

acceptCredentialAssertState == CredentialReceived
\* Mutant: the acknowledgement is sent and the record is left as it was.
acceptCredentialState_CredentialReceived == CredentialReceived

acceptCredentialState == Done

\* Mutant: the acknowledgement is accepted once more on a finished exchange.
processAckAssertState_Done == Done

processAckAssertState == CredentialIssued
processAckState == Done

\* autoAcceptCredential ?? credentialRecord.autoAcceptCredential
WithAutoAccept(record, autoAcceptCredential) ==
    [record EXCEPT !.autoAcceptCredential =
        IF autoAcceptCredential # None THEN autoAcceptCredential ELSE @]

-----------------------------------------------------------------------------
(* Inbound handlers.  continuityOk is the outcome of the connection        *)
(* service's assertConnectionOrServiceDecorator, formatOk that of the      *)
(* format services' own processing or creation of the payloads.           *)

\* processProposal: find the record by thread and connection; resolve the format
\* services from the message; then either advance the record found or save a
\* new one in proposal-received.
processProposal(a, threadId, connection, message, continuityOk, formatOk) ==
    LET found == Matching(a, threadId, connection)
        formatServices == getFormatServicesFromMessage(message.formats)
        id == CHOOSE i \in found : TRUE
        credentialRecord == records[a][id]
        error ==
            IF Cardinality(found) > 1 THEN "lookup"
            ELSE IF NoSupportedFormats(formatServices) THEN "formats"
            ELSE IF found # {} /\ credentialRecord.protocolVersion # "v2"
            THEN "version"
            ELSE IF found # {} /\ credentialRecord.state # processProposalAssertState
            THEN "state"
            ELSE IF ~continuityOk THEN "continuity"
            ELSE CoordinatorProcessError(formatServices, message.formats, formatOk)
    IN  IF error # "none"
        THEN Throw("processProposal", a, IF Cardinality(found) = 1 THEN id ELSE 0,
                   error)
        ELSE IF found # {}
        THEN /\ StoreMessage(a, id, "proposal", message, formatServices)
             /\ updateState("processProposal", a, id, credentialRecord,
                            processProposalState)
        ELSE SaveNew("processProposal", a,
                     CredentialExchangeRecord(connection, threadId,
                                              ProposalReceived, None),
                     "proposal", message, formatServices)

\* processOffer: find the record by thread and connection; resolve the format
\* services from the message; then either advance the record found or save a
\* new one in offer-received.
processOffer(a, threadId, connection, message, continuityOk, formatOk) ==
    LET found == Matching(a, threadId, connection)
        formatServices == getFormatServicesFromMessage(message.formats)
        id == CHOOSE i \in found : TRUE
        credentialRecord == records[a][id]
        error ==
            IF Cardinality(found) > 1 THEN "lookup"
            ELSE IF NoSupportedFormats(formatServices) THEN "formats"
            ELSE IF found # {} /\ credentialRecord.protocolVersion # "v2"
            THEN "version"
            ELSE IF found # {} /\ credentialRecord.state # processOfferAssertState
            THEN "state"
            ELSE IF ~continuityOk THEN "continuity"
            ELSE CoordinatorProcessError(formatServices, message.formats, formatOk)
    IN  IF error # "none"
        THEN Throw("processOffer", a, IF Cardinality(found) = 1 THEN id ELSE 0,
                   error)
        ELSE IF found # {}
        THEN /\ StoreMessage(a, id, "offer", message, formatServices)
             /\ updateState("processOffer", a, id, credentialRecord,
                            processOfferState)
        ELSE SaveNew("processOffer", a,
                     CredentialExchangeRecord(connection, threadId,
                                              OfferReceived, None),
                     "offer", message, formatServices)

\* processRequest: find the record by thread and connection; resolve the format
\* services from the message; then either advance the record found or save a
\* new one in request-received.
processRequest(a, threadId, connection, message, continuityOk, formatOk) ==
    LET found == Matching(a, threadId, connection)
        formatServices == getFormatServicesFromMessage(message.formats)
        id == CHOOSE i \in found : TRUE
        credentialRecord == records[a][id]
        error ==
            IF Cardinality(found) > 1 THEN "lookup"
            ELSE IF NoSupportedFormats(formatServices) THEN "formats"
            ELSE IF found # {} /\ credentialRecord.protocolVersion # "v2"
            THEN "version"
            ELSE IF found # {} /\ credentialRecord.state # processRequestAssertState
            THEN "state"
            ELSE IF ~continuityOk THEN "continuity"
            ELSE CoordinatorProcessError(formatServices, message.formats, formatOk)
    IN  IF error # "none"
        THEN Throw("processRequest", a, IF Cardinality(found) = 1 THEN id ELSE 0,
                   error)
        ELSE IF found # {}
        THEN /\ StoreMessage(a, id, "request", message, formatServices)
             /\ updateState("processRequest", a, id, credentialRecord,
                            processRequestState)
        ELSE SaveNew("processRequest", a,
                     CredentialExchangeRecord(connection, threadId,
                                              RequestReceived, None),
                     "request", message, formatServices)

\* Mutant: the record is updated to credential-received before the coordinator
\* processes the credential, so that a failing format service leaves it there.
processCredential_UpdatesFirst(a, threadId, connection, message, continuityOk, formatOk) ==
    LET found == Matching(a, threadId, connection)
        id == CHOOSE i \in found : TRUE
        credentialRecord == records[a][id]
        requestMessage == findAgentMessage(a, id, "request")
        formatServices == getFormatServicesFromMessage(Get(requestMessage).formats)
        error ==
            IF Cardinality(found) # 1 THEN "lookup"
            ELSE IF ~IsPresent(requestMessage) THEN "message"
            ELSE IF credentialRecord.protocolVersion # "v2" THEN "version"
            ELSE IF credentialRecord.state # processCredentialAssertState
            THEN "state"
            ELSE IF ~continuityOk THEN "continuity"
            ELSE IF NoSupportedFormats(formatServices) THEN "formats"
            ELSE "none"
        failure == CoordinatorProcessError(formatServices, message.formats, formatOk)
    IN  IF error # "none"
        THEN Throw("processCredential", a,
                   IF Cardinality(found) = 1 THEN id ELSE 0, error)
        ELSE IF failure # "none"
        THEN /\ records' = [records EXCEPT
                              ![a][id].state = processCredentialState]
             /\ last' = Call("processCredential", a, "error", failure, id, 0, 1)
             /\ events' = <<StateChangedEvent(id, records'[a][id],
                                               credentialRecord.state)>>
             /\ used' = <<>>
             /\ UNCHANGED didcomm
        ELSE /\ StoreMessage(a, id, "credential", message, formatServices)
             /\ updateState("processCredential", a, id, credentialRecord,
                            processCredentialState)

\* processCredential: the record must exist and hold a request message; the
\* format services are those of the stored request message.
processCredential(a, threadId, connection, message, continuityOk, formatOk) ==
    LET found == Matching(a, threadId, connection)
        id == CHOOSE i \in found : TRUE
        credentialRecord == records[a][id]
        requestMessage == findAgentMessage(a, id, "request")
        formatServices == getFormatServicesFromMessage(Get(requestMessage).formats)
        error ==
            IF Cardinality(found) # 1 THEN "lookup"
            ELSE IF ~IsPresent(requestMessage) THEN "message"
            ELSE IF credentialRecord.protocolVersion # "v2" THEN "version"
            ELSE IF credentialRecord.state # processCredentialAssertState
            THEN "state"
            ELSE IF ~continuityOk THEN "continuity"
            ELSE IF NoSupportedFormats(formatServices) THEN "formats"
            ELSE CoordinatorProcessError(formatServices, message.formats, formatOk)
    IN  IF error # "none"
        THEN Throw("processCredential", a,
                   IF Cardinality(found) = 1 THEN id ELSE 0, error)
        ELSE /\ StoreMessage(a, id, "credential", message, formatServices)
             /\ updateState("processCredential", a, id, credentialRecord,
                            processCredentialState)

\* The connection id processAck writes into the record it found.
processAckConnectionId(record, connection) == connection

\* Mutant: an acknowledgement that matches no record makes a new record in
\* done.
processAck_FirstContact(a, threadId, connection, continuityOk) ==
    LET found == Matching(a, threadId, connection)
        id == CHOOSE i \in found : TRUE
        credentialRecord ==
            [records[a][id] EXCEPT
                !.connectionId = processAckConnectionId(@, connection)]
        error ==
            IF Cardinality(found) > 1 THEN "lookup"
            ELSE IF found = {} THEN "none"
            ELSE IF ~IsPresent(findAgentMessage(a, id, "request")) THEN "message"
            ELSE IF ~IsPresent(findAgentMessage(a, id, "credential"))
            THEN "message"
            ELSE IF credentialRecord.protocolVersion # "v2" THEN "version"
            ELSE IF credentialRecord.state # processAckAssertState THEN "state"
            ELSE IF ~continuityOk THEN "continuity"
            ELSE "none"
    IN  IF error # "none"
        THEN Throw("processAck", a, IF Cardinality(found) = 1 THEN id ELSE 0,
                   error)
        ELSE IF found = {}
        THEN SaveNew("processAck", a,
                     CredentialExchangeRecord(connection, threadId, Done, None),
                     "ack", Message(<<>>, Absent), <<>>)
        ELSE /\ updateState("processAck", a, id, credentialRecord, processAckState)
             /\ UNCHANGED didcomm
             /\ used' = <<>>

\* processAck: the record must exist and hold a request and a credential
\* message; the acknowledgement itself is not stored.
processAck(a, threadId, connection, continuityOk) ==
    LET found == Matching(a, threadId, connection)
        id == CHOOSE i \in found : TRUE
        credentialRecord ==
            [records[a][id] EXCEPT
                !.connectionId = processAckConnectionId(@, connection)]
        error ==
            IF Cardinality(found) # 1 THEN "lookup"
            ELSE IF ~IsPresent(findAgentMessage(a, id, "request")) THEN "message"
            ELSE IF ~IsPresent(findAgentMessage(a, id, "credential"))
            THEN "message"
            ELSE IF credentialRecord.protocolVersion # "v2" THEN "version"
            ELSE IF credentialRecord.state # processAckAssertState THEN "state"
            ELSE IF ~continuityOk THEN "continuity"
            ELSE "none"
    IN  IF error # "none"
        THEN Throw("processAck", a, IF Cardinality(found) = 1 THEN id ELSE 0,
                   error)
        ELSE /\ updateState("processAck", a, id, credentialRecord, processAckState)
             /\ UNCHANGED didcomm
             /\ used' = <<>>

\* Mutant: the problem report is refused on an exchange that is over.
processProblemReport_AssertsState(a, threadId, connection, description) ==
    LET found == Matching(a, threadId, connection)
        id == CHOOSE i \in found : TRUE
    IN  IF Cardinality(found) # 1
        THEN Throw("processProblemReport", a, 0, "lookup")
        ELSE IF records[a][id].state \in TerminalStates
        THEN Throw("processProblemReport", a, id, "state")
        ELSE /\ records' = [records EXCEPT
                              ![a][id].errorMessage =
                                  Some(<<description.code, description.en>>)]
             /\ last' = Call("processProblemReport", a, "ok", "none", id, 0, 1)
             /\ events' = <<>>
             /\ UNCHANGED didcomm
             /\ used' = <<>>

\* processProblemReport (the base service): the record found by thread and
\* connection gets the error message "<code>: <text>" and is updated once; the
\* state is not asserted and not changed, and no event is emitted.
processProblemReport(a, threadId, connection, description) ==
    LET found == Matching(a, threadId, connection)
        id == CHOOSE i \in found : TRUE
    IN  IF Cardinality(found) # 1
        THEN Throw("processProblemReport", a, 0, "lookup")
        ELSE /\ records' = [records EXCEPT
                              ![a][id].errorMessage =
                                  Some(<<description.code, description.en>>)]
             /\ last' = Call("processProblemReport", a, "ok", "none", id, 0, 1)
             /\ events' = <<>>
             /\ UNCHANGED didcomm
             /\ used' = <<>>

-----------------------------------------------------------------------------
(* Operations that answer a received message.                              *)

\* acceptProposal: the caller's format services, else those of the stored
\* proposal message; the offer message the coordinator builds is stored.
acceptProposal(a, id, credentialFormats, autoAcceptCredential, preview, formatOk) ==
    LET credentialRecord == records[a][id]
        fromCaller == getFormatServices(credentialFormats)
        proposalMessage == findAgentMessage(a, id, "proposal")
        formatServices ==
            IF fromCaller # <<>> THEN fromCaller
            ELSE getFormatServicesFromMessage(Get(proposalMessage).formats)
        error ==
            IF credentialRecord.protocolVersion # "v2" THEN "version"
            ELSE IF credentialRecord.state # acceptProposalAssertState THEN "state"
            ELSE IF fromCaller = <<>> /\ ~IsPresent(proposalMessage)
            THEN "message"
            ELSE IF NoSupportedFormats(formatServices) THEN "formats"
            ELSE IF ~IsPresent(proposalMessage) THEN "message"
            ELSE CoordinatorAcceptError(formatServices, Get(proposalMessage).formats,
                                        formatOk)
    IN  IF error # "none" THEN Throw("acceptProposal", a, id, error)
        ELSE /\ StoreMessage(a, id, "offer",
                             CoordinatorMessage(formatServices, preview),
                             formatServices)
             /\ updateState("acceptProposal", a, id,
                            WithAutoAccept(credentialRecord, autoAcceptCredential),
                            acceptProposalState)

\* Mutant: negotiation is let through on a record without a connection.
HasConnection_Always(credentialRecord) == TRUE

\* if (!credentialRecord.connectionId) throw
HasConnection(credentialRecord) == credentialRecord.connectionId # None

\* negotiateProposal: needs a connection and format services from the caller.
negotiateProposal(a, id, credentialFormats, autoAcceptCredential, preview, formatOk) ==
    LET credentialRecord == records[a][id]
        formatServices == getFormatServices(credentialFormats)
        error ==
            IF credentialRecord.protocolVersion # "v2" THEN "version"
            ELSE IF credentialRecord.state # negotiateProposalAssertState THEN "state"
            ELSE IF ~HasConnection(credentialRecord) THEN "connection"
            ELSE IF NoSupportedFormats(formatServices) THEN "formats"
            ELSE IF ~formatOk THEN "format-service"
            ELSE "none"
    IN  IF error # "none" THEN Throw("negotiateProposal", a, id, error)
        ELSE /\ StoreMessage(a, id, "offer",
                             CoordinatorMessage(formatServices, preview),
                             formatServices)
             /\ updateState("negotiateProposal", a, id,
                            WithAutoAccept(credentialRecord, autoAcceptCredential),
                            negotiateProposalState)

\* Mutant: the format services are the caller's only; the stored offer is
\* not consulted when the caller names none.
acceptOffer_NoFallback(a, id, credentialFormats, autoAcceptCredential, formatOk) ==
    LET credentialRecord == records[a][id]
        formatServices == getFormatServices(credentialFormats)
        offerMessage == findAgentMessage(a, id, "offer")
        error ==
            IF credentialRecord.protocolVersion # "v2" THEN "version"
            ELSE IF credentialRecord.state # acceptOfferAssertState THEN "state"
            ELSE IF NoSupportedFormats(formatServices) THEN "formats"
            ELSE IF ~IsPresent(offerMessage) THEN "message"
            ELSE CoordinatorAcceptError(formatServices, Get(offerMessage).formats,
                                        formatOk)
    IN  IF error # "none" THEN Throw("acceptOffer", a, id, error)
        ELSE /\ StoreMessage(a, id, "request",
                             CoordinatorMessage(formatServices, Absent),
                             formatServices)
             /\ updateState("acceptOffer", a, id,
                            WithAutoAccept(credentialRecord, autoAcceptCredential),
                            acceptOfferState)

\* acceptOffer: the caller's format services, else those of the stored
\* offer message; the request message the coordinator builds is stored.
acceptOffer(a, id, credentialFormats, autoAcceptCredential, formatOk) ==
    LET credentialRecord == records[a][id]
        fromCaller == getFormatServices(credentialFormats)
        offerMessage == findAgentMessage(a, id, "offer")
        formatServices ==
            IF fromCaller # <<>> THEN fromCaller
            ELSE getFormatServicesFromMessage(Get(offerMessage).formats)
        error ==
            IF credentialRecord.protocolVersion # "v2" THEN "version"
            ELSE IF credentialRecord.state # acceptOfferAssertState THEN "state"
            ELSE IF fromCaller = <<>> /\ ~IsPresent(offerMessage)
            THEN "message"
            ELSE IF NoSupportedFormats(formatServices) THEN "formats"
            ELSE IF ~IsPresent(offerMessage) THEN "message"
            ELSE CoordinatorAcceptError(formatServices, Get(offerMessage).formats,
                                        formatOk)
    IN  IF error # "none" THEN Throw("acceptOffer", a, id, error)
        ELSE /\ StoreMessage(a, id, "request",
                             CoordinatorMessage(formatServices, Absent),
                             formatServices)
             /\ updateState("acceptOffer", a, id,
                            WithAutoAccept(credentialRecord, autoAcceptCredential),
                            acceptOfferState)

\* Mutant: a second counter-proposal on one exchange is refused.
negotiateOffer_Once(a, id, credentialFormats, autoAcceptCredential, preview, formatOk) ==
    LET credentialRecord == records[a][id]
        formatServices == getFormatServices(credentialFormats)
        error ==
            IF credentialRecord.protocolVersion # "v2" THEN "version"
            ELSE IF credentialRecord.state # negotiateOfferAssertState THEN "state"
            ELSE IF ~HasConnection(credentialRecord) THEN "connection"
            ELSE IF IsPresent(findAgentMessage(a, id, "proposal")) THEN "state"
            ELSE IF NoSupportedFormats(formatServices) THEN "formats"
            ELSE IF ~formatOk THEN "format-service"
            ELSE "none"
    IN  IF error # "none" THEN Throw("negotiateOffer", a, id, error)
        ELSE /\ StoreMessage(a, id, "proposal",
                             CoordinatorMessage(formatServices, preview),
                             formatServices)
             /\ updateState("negotiateOffer", a, id,
                            WithAutoAccept(credentialRecord, autoAcceptCredential),
                            negotiateOfferState)

\* negotiateOffer: needs a connection and format services from the caller.
negotiateOffer(a, id, credentialFormats, autoAcceptCredential, preview, formatOk) ==
    LET credentialRecord == records[a][id]
        formatServices == getFormatServices(credentialFormats)
        error ==
            IF credentialRecord.protocolVersion # "v2" THEN "version"
            ELSE IF credentialRecord.state # negotiateOfferAssertState THEN "state"
            ELSE IF ~HasConnection(credentialRecord) THEN "connection"
            ELSE IF NoSupportedFormats(formatServices) THEN "formats"
            ELSE IF ~formatOk THEN "format-service"
            ELSE "none"
    IN  IF error # "none" THEN Throw("negotiateOffer", a, id, error)
        ELSE /\ StoreMessage(a, id, "proposal",
                             CoordinatorMessage(formatServices, preview),
                             formatServices)
             /\ updateState("negotiateOffer", a, id,
                            WithAutoAccept(credentialRecord, autoAcceptCredential),
                            negotiateOfferState)

\* Mutant: the credential message is sent and not stored with the record.
acceptRequest_CredentialNotStored(a, id, credentialFormats, autoAcceptCredential, formatOk) ==
    LET credentialRecord == records[a][id]
        fromCaller == getFormatServices(credentialFormats)
        requestMessage == findAgentMessage(a, id, "request")
        formatServices ==
            IF fromCaller # <<>> THEN fromCaller
            ELSE getFormatServicesFromMessage(Get(requestMessage).formats)
        error ==
            IF credentialRecord.protocolVersion # "v2" THEN "version"
            ELSE IF credentialRecord.state # acceptRequestAssertState THEN "state"
            ELSE IF fromCaller = <<>> /\ ~IsPresent(requestMessage)
            THEN "message"
            ELSE IF NoSupportedFormats(formatServices) THEN "formats"
            ELSE IF ~IsPresent(requestMessage) THEN "message"
            ELSE CoordinatorAcceptError(formatServices, Get(requestMessage).formats,
                                        formatOk)
    IN  IF error # "none" THEN Throw("acceptRequest", a, id, error)
        ELSE /\ used' = formatServices
             /\ UNCHANGED didcomm
             /\ updateState("acceptRequest", a, id,
                            WithAutoAccept(credentialRecord, autoAcceptCredential),
                            acceptRequestState)

\* acceptRequest: the caller's format services, else those of the stored
\* request message; the credential message the coordinator builds is stored.
acceptRequest(a, id, credentialFormats, autoAcceptCredential, formatOk) ==
    LET credentialRecord == records[a][id]
        fromCaller == getFormatServices(credentialFormats)
        requestMessage == findAgentMessage(a, id, "request")
        formatServices ==
            IF fromCaller # <<>> THEN fromCaller
            ELSE getFormatServicesFromMessage(Get(requestMessage).formats)
        error ==
            IF credentialRecord.protocolVersion # "v2" THEN "version"
            ELSE IF credentialRecord.state # acceptRequestAssertState THEN "state"
            ELSE IF fromCaller = <<>> /\ ~IsPresent(requestMessage)
            THEN "message"
            ELSE IF NoSupportedFormats(formatServices) THEN "formats"
            ELSE IF ~IsPresent(requestMessage) THEN "message"
            ELSE CoordinatorAcceptError(formatServices, Get(requestMessage).formats,
                                        formatOk)
    IN  IF error # "none" THEN Throw("acceptRequest", a, id, error)
        ELSE /\ StoreMessage(a, id, "credential",
                             CoordinatorMessage(formatServices, Absent),
                             formatServices)
             /\ updateState("acceptRequest", a, id,
                            WithAutoAccept(credentialRecord, autoAcceptCredential),
                            acceptRequestState)

\* Mutant: the protocol version of the record is not asserted.
acceptCredential_AnyVersion(a, id) ==
    LET credentialRecord == records[a][id]
    IN  IF credentialRecord.state # acceptCredentialAssertState
        THEN Throw("acceptCredential", a, id, "state")
        ELSE /\ updateState("acceptCredential", a, id, credentialRecord,
                            acceptCredentialState)
             /\ UNCHANGED didcomm
             /\ used' = <<>>

\* Mutant: the acknowledgement is refused while another exchange of the store
\* is still awaiting a credential.
acceptCredential_WaitsForOthers(a, id) ==
    LET credentialRecord == records[a][id]
        error ==
            IF credentialRecord.protocolVersion # "v2" THEN "version"
            ELSE IF credentialRecord.state # acceptCredentialAssertState
            THEN "state"
            ELSE IF \E i \in Ids(a) \ {id} : records[a][i].state = RequestSent
            THEN "state"
            ELSE "none"
    IN  IF error # "none" THEN Throw("acceptCredential", a, id, error)
        ELSE /\ updateState("acceptCredential", a, id, credentialRecord,
                            acceptCredentialState)
             /\ UNCHANGED didcomm
             /\ used' = <<>>

\* acceptCredential: the acknowledgement is built and returned, not stored.
acceptCredential(a, id) ==
    LET credentialRecord == records[a][id]
        error ==
            IF credentialRecord.protocolVersion # "v2" THEN "version"
            ELSE IF credentialRecord.state # acceptCredentialAssertState
            THEN "state"
            ELSE "none"
    IN  IF error # "none" THEN Throw("acceptCredential", a, id, error)
        ELSE /\ updateState("acceptCredential", a, id, credentialRecord,
                            acceptCredentialState)
             /\ UNCHANGED didcomm
             /\ used' = <<>>

-----------------------------------------------------------------------------
(* Auto-accept evaluation.  `answers` is what the predicate of each format *)
(* service returns for the attachments of this exchange.  An evaluation    *)
(* goes to `auto`: its result ("true", "false", or "raise" when a lookup    *)
(* of an attachment throws), the stored messages it read, the format       *)
(* services it resolved, the predicates it invoked, in order, and whether  *)
(* it went on to arePreviewAttributesEqual (`compared`).                   *)

Evaluation(fn, result, reads, formatServices, calls) ==
    [fn |-> fn, result |-> result, reads |-> reads,
     formatServices |-> formatServices, calls |-> calls, data |-> <<>>,
     compared |-> FALSE]

NoEvaluation == Evaluation("none", "none", {}, <<>>, <<>>)

\* composeAutoAccept(recordConfig, agentConfig): recordConfig ?? agentConfig
composeAutoAccept(recordConfig, agentConfig) ==
    IF recordConfig # None THEN recordConfig ELSE agentConfig

\* arePreviewAttributesEqual: as many attributes, and the same name/value
\* pairs whatever their order.
arePreviewAttributesEqual(firstAttributes, secondAttributes) ==
    /\ Len(firstAttributes) = Len(secondAttributes)
    /\ Range(firstAttributes) = Range(secondAttributes)

\* message.credentialPreview?.attributes ?? []
AttributesOrEmpty(preview) == IF IsPresent(preview) THEN Get(preview) ELSE <<>>

Answer(b) == IF b THEN "true" ELSE "false"

\* Mutant: a format service that answers false does not end the loop; the
\* answer of the last one stands.
RECURSIVE AskFormatServices_LastWins(_, _, _, _)
AskFormatServices_LastWins(formatServices, attachable, answers, calls) ==
    IF formatServices = <<>>
    THEN [result |-> IF calls = <<>> THEN "true"
                     ELSE Answer(calls[Len(calls)].result),
          calls |-> calls]
    ELSE LET formatService == Head(formatServices)
         IN  IF formatService \notin attachable
             THEN [result |-> "raise", calls |-> calls]
             ELSE AskFormatServices_LastWins(
                      Tail(formatServices), attachable, answers,
                      Append(calls, [service |-> formatService,
                                     result |-> answers[formatService]]))

\* Mutant: the predicate of every format service is invoked; the result is
\* false when one of them answered false.
RECURSIVE AskFormatServices_AsksAll(_, _, _, _)
AskFormatServices_AsksAll(formatServices, attachable, answers, calls) ==
    IF formatServices = <<>>
    THEN [result |-> Answer(\A i \in 1..Len(calls) : calls[i].result),
          calls |-> calls]
    ELSE LET formatService == Head(formatServices)
         IN  IF formatService \notin attachable
             THEN [result |-> "raise", calls |-> calls]
             ELSE AskFormatServices_AsksAll(
                      Tail(formatServices), attachable, answers,
                      Append(calls, [service |-> formatService,
                                     result |-> answers[formatService]]))

\* for (const formatService of formatServices): look the attachments up
\* (getAttachmentForService throws for a service outside `attachable`), ask the
\* predicate of the service, and return false at the first that answers false.
RECURSIVE AskFormatServices(_, _, _, _)
AskFormatServices(formatServices, attachable, answers, calls) ==
    IF formatServices = <<>> THEN [result |-> "true", calls |-> calls]
    ELSE LET formatService == Head(formatServices)
             asked == Append(calls, [service |-> formatService,
                                     result |-> answers[formatService]])
         IN  IF formatService \notin attachable
             THEN [result |-> "raise", calls |-> calls]
             ELSE IF ~answers[formatService]
             THEN [result |-> "false", calls |-> asked]
             ELSE AskFormatServices(Tail(formatServices), attachable, answers,
                                    asked)

\* The services whose attachment getAttachmentForService finds in `message`;
\* all of them when the message is an optional one that is absent.
Attachable(message) ==
    IF IsPresent(message)
    THEN {service \in formatServiceMap :
             HasAttachmentForService(service, Get(message).formats)}
    ELSE formatServiceMap

\* shouldAutoRespondToProposal past the always / never cases.
ProposalContentApproved(a, id, proposalMessage, answers) ==
    LET fn == "shouldAutoRespondToProposal"
        offerMessage == findAgentMessage(a, id, "offer")
        formatServices == getFormatServicesFromMessage(Get(offerMessage).formats)
        asked == AskFormatServices(formatServices,
                                   Attachable(offerMessage)
                                       \cap Attachable(Some(proposalMessage)),
                                   answers, <<>>)
        proposalPreview == proposalMessage.preview
        offerPreview == Get(offerMessage).preview
    IN  IF ~IsPresent(offerMessage)
        THEN Evaluation(fn, "false", {"offer"}, <<>>, <<>>)
        ELSE IF asked.result # "true"
        THEN Evaluation(fn, asked.result, {"offer"}, formatServices, asked.calls)
        ELSE IF IsPresent(proposalPreview) \/ IsPresent(offerPreview)
        THEN IF ~IsPresent(proposalPreview) \/ ~IsPresent(offerPreview)
             THEN Evaluation(fn, "false", {"offer"}, formatServices, asked.calls)
             ELSE [Evaluation(fn,
                              Answer(arePreviewAttributesEqual(
                                         Get(proposalPreview), Get(offerPreview))),
                              {"offer"}, formatServices, asked.calls)
                  EXCEPT !.compared = TRUE]
        ELSE Evaluation(fn, "true", {"offer"}, formatServices, asked.calls)

shouldAutoRespondToProposal(a, id, proposalMessage, answers) ==
    LET autoAccept ==
            composeAutoAccept(records[a][id].autoAcceptCredential, config)
    IN  IF autoAccept = Always
        THEN Evaluation("shouldAutoRespondToProposal", "true", {}, <<>>, <<>>)
        ELSE IF autoAccept = Never
        THEN Evaluation("shouldAutoRespondToProposal", "false", {}, <<>>, <<>>)
        ELSE ProposalContentApproved(a, id, proposalMessage, answers)

\* Mutant: the format services are resolved from the formats of the offer
\* under evaluation.
OfferContentApproved_FromIncoming(a, id, offerMessage, answers) ==
    LET fn == "shouldAutoRespondToOffer"
        proposalMessage == findAgentMessage(a, id, "proposal")
        formatServices == getFormatServicesFromMessage(offerMessage.formats)
        asked == AskFormatServices(formatServices,
                                   Attachable(Some(offerMessage))
                                       \cap Attachable(proposalMessage),
                                   answers, <<>>)
        proposalPreview == Get(proposalMessage).preview
        offerPreview == offerMessage.preview
    IN  IF ~IsPresent(proposalMessage)
        THEN Evaluation(fn, "false", {"proposal"}, <<>>, <<>>)
        ELSE IF asked.result # "true"
        THEN Evaluation(fn, asked.result, {"proposal"}, formatServices,
                        asked.calls)
        ELSE IF IsPresent(proposalPreview) \/ IsPresent(offerPreview)
        THEN [Evaluation(fn,
                         Answer(arePreviewAttributesEqual(
                                    AttributesOrEmpty(proposalPreview),
                                    AttributesOrEmpty(offerPreview))),
                         {"proposal"}, formatServices, asked.calls)
             EXCEPT !.compared = TRUE]
        ELSE Evaluation(fn, "true", {"proposal"}, formatServices, asked.calls)

\* shouldAutoRespondToOffer past the always / never cases.
OfferContentApproved(a, id, offerMessage, answers) ==
    LET fn == "shouldAutoRespondToOffer"
        proposalMessage == findAgentMessage(a, id, "proposal")
        formatServices ==
            getFormatServicesFromMessage(Get(proposalMessage).formats)
        asked == AskFormatServices(formatServices,
                                   Attachable(Some(offerMessage))
                                       \cap Attachable(proposalMessage),
                                   answers, <<>>)
        proposalPreview == Get(proposalMessage).preview
        offerPreview == offerMessage.preview
    IN  IF ~IsPresent(proposalMessage)
        THEN Evaluation(fn, "false", {"proposal"}, <<>>, <<>>)
        ELSE IF asked.result # "true"
        THEN Evaluation(fn, asked.result, {"proposal"}, formatServices,
                        asked.calls)
        ELSE IF IsPresent(proposalPreview) \/ IsPresent(offerPreview)
        THEN [Evaluation(fn,
                         Answer(arePreviewAttributesEqual(
                                    AttributesOrEmpty(proposalPreview),
                                    AttributesOrEmpty(offerPreview))),
                         {"proposal"}, formatServices, asked.calls)
             EXCEPT !.compared = TRUE]
        ELSE Evaluation(fn, "true", {"proposal"}, formatServices, asked.calls)

\* Mutant: the arguments of composeAutoAccept are exchanged, so the default
\* of the module configuration is taken before the record's own setting.
shouldAutoRespondToOffer_DefaultWins(a, id, offerMessage, answers) ==
    LET autoAccept ==
            composeAutoAccept(config, records[a][id].autoAcceptCredential)
    IN  IF autoAccept = Always
        THEN Evaluation("shouldAutoRespondToOffer", "true", {}, <<>>, <<>>)
        ELSE IF autoAccept = Never
        THEN Evaluation("shouldAutoRespondToOffer", "false", {}, <<>>, <<>>)
        ELSE OfferContentApproved(a, id, offerMessage, answers)

shouldAutoRespondToOffer(a, id, offerMessage, answers) ==
    LET autoAccept ==
            composeAutoAccept(records[a][id].autoAcceptCredential, config)
    IN  IF autoAccept = Always
        THEN Evaluation("shouldAutoRespondToOffer", "true", {}, <<>>, <<>>)
        ELSE IF autoAccept = Never
        THEN Evaluation("shouldAutoRespondToOffer", "false", {}, <<>>, <<>>)
        ELSE OfferContentApproved(a, id, offerMessage, answers)

\* shouldAutoRespondToRequest past the always / never cases.
RequestContentApproved(a, id, requestMessage, answers) ==
    LET fn == "shouldAutoRespondToRequest"
        proposalMessage == findAgentMessage(a, id, "proposal")
        offerMessage == findAgentMessage(a, id, "offer")
        formatServices == getFormatServicesFromMessage(Get(offerMessage).formats)
        asked == AskFormatServices(formatServices,
                                   Attachable(offerMessage)
                                       \cap Attachable(proposalMessage)
                                       \cap Attachable(Some(requestMessage)),
                                   answers, <<>>)
    IN  IF ~IsPresent(offerMessage)
        THEN Evaluation(fn, "false", {"proposal", "offer"}, <<>>, <<>>)
        ELSE Evaluation(fn, asked.result, {"proposal", "offer"}, formatServices,
                        asked.calls)

shouldAutoRespondToRequest(a, id, requestMessage, answers) ==
    LET autoAccept ==
            composeAutoAccept(records[a][id].autoAcceptCredential, config)
    IN  IF autoAccept = Always
        THEN Evaluation("shouldAutoRespondToRequest", "true", {}, <<>>, <<>>)
        ELSE IF autoAccept = Never
        THEN Evaluation("shouldAutoRespondToRequest", "false", {}, <<>>, <<>>)
        ELSE RequestContentApproved(a, id, requestMessage, answers)

\* Mutant: without a stored request there is nothing to compare the
\* credential with, and it is accepted.
CredentialContentApproved_MissingIsTrue(a, id, credentialMessage, answers) ==
    LET fn == "shouldAutoRespondToCredential"
        proposalMessage == findAgentMessage(a, id, "proposal")
        offerMessage == findAgentMessage(a, id, "offer")
        requestMessage == findAgentMessage(a, id, "request")
        reads == {"proposal", "offer", "request"}
        formatServices ==
            getFormatServicesFromMessage(Get(requestMessage).formats)
        asked == AskFormatServices(formatServices,
                                   Attachable(offerMessage)
                                       \cap Attachable(proposalMessage)
                                       \cap Attachable(requestMessage)
                                       \cap Attachable(Some(credentialMessage)),
                                   answers, <<>>)
    IN  IF ~IsPresent(requestMessage)
        THEN Evaluation(fn, "true", reads, <<>>, <<>>)
        ELSE Evaluation(fn, asked.result, reads, formatServices, asked.calls)

\* shouldAutoRespondToCredential past the always / never cases.
CredentialContentApproved(a, id, credentialMessage, answers) ==
    LET fn == "shouldAutoRespondToCredential"
        proposalMessage == findAgentMessage(a, id, "proposal")
        offerMessage == findAgentMessage(a, id, "offer")
        requestMessage == findAgentMessage(a, id, "request")
        reads == {"proposal", "offer", "request"}
        formatServices ==
            getFormatServicesFromMessage(Get(requestMessage).formats)
        asked == AskFormatServices(formatServices,
                                   Attachable(offerMessage)
                                       \cap Attachable(proposalMessage)
                                       \cap Attachable(requestMessage)
                                       \cap Attachable(Some(credentialMessage)),
                                   answers, <<>>)
    IN  IF ~IsPresent(requestMessage)
        THEN Evaluation(fn, "false", reads, <<>>, <<>>)
        ELSE Evaluation(fn, asked.result, reads, formatServices, asked.calls)

\* Mutant: the never case is not handled and the content decides.
shouldAutoRespondToCredential_NoNever(a, id, credentialMessage, answers) ==
    LET autoAccept ==
            composeAutoAccept(records[a][id].autoAcceptCredential, config)
    IN  IF autoAccept = Always
        THEN Evaluation("shouldAutoRespondToCredential", "true", {}, <<>>, <<>>)
        ELSE CredentialContentApproved(a, id, credentialMessage, answers)

shouldAutoRespondToCredential(a, id, credentialMessage, answers) ==
    LET autoAccept ==
            composeAutoAccept(records[a][id].autoAcceptCredential, config)
    IN  IF autoAccept = Always
        THEN Evaluation("shouldAutoRespondToCredential", "true", {}, <<>>, <<>>)
        ELSE IF autoAccept = Never
        THEN Evaluation("shouldAutoRespondToCredential", "false", {}, <<>>, <<>>)
        ELSE CredentialContentApproved(a, id, credentialMessage, answers)

\* The value returned by one of the two operations that return data.
Returned(fn, reads, data) ==
    [Evaluation(fn, "ok", reads, <<>>, <<>>) EXCEPT !.data = <<data>>]

\* createProblemReport: a problem report that carries the caller's text.
createProblemReport(message) ==
    Returned("createProblemReport", {},
             [en |-> message, code |-> "issuance-abandoned"])

\* One iteration of the loop of getFormatData: nothing for a message that
\* is not stored, else the format key of every service its formats name.
MessageFormatData(message) ==
    IF ~IsPresent(message) THEN Absent
    ELSE Some(getFormatServicesFromMessage(Get(message).formats))

\* message?.credentialPreview?.attributes
PreviewAttributes(message) ==
    IF IsPresent(message) THEN Get(message).preview ELSE Absent

\* Mutant: the loop stops before the credential message.
getFormatData_NoCredential(a, credentialExchangeId) ==
    LET proposalMessage == findAgentMessage(a, credentialExchangeId, "proposal")
        offerMessage == findAgentMessage(a, credentialExchangeId, "offer")
        requestMessage == findAgentMessage(a, credentialExchangeId, "request")
    IN  Returned("getFormatData", {"proposal", "offer", "request", "credential"},
                 [proposalAttributes |-> PreviewAttributes(proposalMessage),
                  offerAttributes |-> PreviewAttributes(offerMessage),
                  proposal |-> MessageFormatData(proposalMessage),
                  offer |-> MessageFormatData(offerMessage),
                  request |-> MessageFormatData(requestMessage),
                  credential |-> Absent])

getFormatData(a, credentialExchangeId) ==
    LET proposalMessage == findAgentMessage(a, credentialExchangeId, "proposal")
        offerMessage == findAgentMessage(a, credentialExchangeId, "offer")
        requestMessage == findAgentMessage(a, credentialExchangeId, "request")
        credentialMessage ==
            findAgentMessage(a, credentialExchangeId, "credential")
    IN  Returned("getFormatData", {"proposal", "offer", "request", "credential"},
                 [proposalAttributes |-> PreviewAttributes(proposalMessage),
                  offerAttributes |-> PreviewAttributes(offerMessage),
                  proposal |-> MessageFormatData(proposalMessage),
                  offer |-> MessageFormatData(offerMessage),
                  request |-> MessageFormatData(requestMessage),
                  credential |-> MessageFormatData(credentialMessage)])

-----------------------------------------------------------------------------
(* The state after construction.                                           *)

NoCall == Call("none", None, "ok", "none", 0, 0, 0)

\* The invocations of inbound handlers that can be in flight at once.
Invocations == 1..MaxInFlight

\* An invocation: where it stands (pc), the handler and its message context,
\* and the locals it holds across its awaits: the record the lookup returned
\* (an object of its own, or none), the format services, the event it emitted.
Invocation(pc, op, connection, message, credentialRecord, formatServices) ==
    [pc |-> pc, op |-> op, connection |-> connection, message |-> message,
     found |-> Absent, credentialRecord |-> credentialRecord,
     formatServices |-> formatServices, emitted |-> Absent]

NoneInFlight ==
    [p \in Invocations |->
        Invocation("idle", "none", None, Message(<<>>, Absent), Absent, <<>>)]

Init ==
    /\ records = [a \in Agents |-> <<>>]
    /\ didcomm = [a \in Agents |-> <<>>]
    /\ config = Never
    /\ last = NoCall
    /\ used = <<>>
    /\ events = <<>>
    /\ step = 0
    /\ auto = NoEvaluation
    /\ race = NoneInFlight

-----------------------------------------------------------------------------
(* One instance and its environment: any caller input, any inbound         *)
(* message, any outcome of the collaborators.                              *)

Self == "faber"

ConnectionInputs == {"c1", None}

\* The format specs of inbound messages: none, one no service supports, one
\* that the first service supports.
FormatInputs == {<<>>, <<"unknown/x">>, <<"hlindy/b">>}

\* The keys of the caller's credentialFormats object.
CredentialFormatInputs == {<<>>, <<"indy">>}

AutoAcceptInputs == {None, ContentApproved}

DescriptionInputs == {[code |-> "issuance-abandoned", en |-> "reason"]}

InboundMessages == {Message(f, Absent) : f \in FormatInputs}

\* An issued credential may also come in a format of each service.
CredentialMessages ==
    InboundMessages \cup {Message(<<"hlindy/b", "aries/ld">>, Absent)}

Untouched == UNCHANGED <<config, step, auto, race>>

\* The store has room for one more exchange (the bound of the model).
CanCreate(a) == Len(records[a]) < MaxRecords

CallCreateProposal ==
    \E connection \in ConnectionInputs \ {None},
       credentialFormats \in CredentialFormatInputs,
       autoAcceptCredential \in AutoAcceptInputs, formatOk \in BOOLEAN :
        /\ CanCreate(Self)
        /\ createProposal(Self, connection, credentialFormats,
                          autoAcceptCredential, Absent, formatOk)
        /\ Untouched

CallCreateOffer ==
    \E connection \in ConnectionInputs,
       credentialFormats \in CredentialFormatInputs,
       autoAcceptCredential \in AutoAcceptInputs, formatOk \in BOOLEAN :
        /\ CanCreate(Self)
        /\ createOffer(Self, connection, credentialFormats, autoAcceptCredential,
                       Absent, formatOk)
        /\ Untouched

CallCreateRequest ==
    \E connection \in ConnectionInputs \ {None},
       credentialFormats \in CredentialFormatInputs,
       autoAcceptCredential \in AutoAcceptInputs, formatOk \in BOOLEAN :
        /\ CanCreate(Self)
        /\ createRequest(Self, connection, credentialFormats,
                         autoAcceptCredential, formatOk)
        /\ Untouched

CallProcessProposal ==
    \E threadId \in ThreadIds, connection \in ConnectionInputs,
       message \in InboundMessages, continuityOk \in BOOLEAN, formatOk \in BOOLEAN :
        /\ Matching(Self, threadId, connection) # {} \/ CanCreate(Self)
        /\ processProposal(Self, threadId, connection, message, continuityOk,
                           formatOk)
        /\ Untouched

CallProcessOffer ==
    \E threadId \in ThreadIds, connection \in ConnectionInputs,
       message \in InboundMessages, continuityOk \in BOOLEAN, formatOk \in BOOLEAN :
        /\ Matching(Self, threadId, connection) # {} \/ CanCreate(Self)
        /\ processOffer(Self, threadId, connection, message, continuityOk, formatOk)
        /\ Untouched

CallProcessRequest ==
    \E threadId \in ThreadIds, connection \in ConnectionInputs,
       message \in InboundMessages, continuityOk \in BOOLEAN, formatOk \in BOOLEAN :
        /\ Matching(Self, threadId, connection) # {} \/ CanCreate(Self)
        /\ processRequest(Self, threadId, connection, message, continuityOk,
                          formatOk)
        /\ Untouched

CallProcessCredential ==
    \E threadId \in ThreadIds, connection \in ConnectionInputs,
       message \in CredentialMessages, continuityOk \in BOOLEAN, formatOk \in BOOLEAN :
        /\ processCredential(Self, threadId, connection, message, continuityOk,
                             formatOk)
        /\ Untouched

CallProcessAck ==
    \E threadId \in ThreadIds, connection \in ConnectionInputs,
       continuityOk \in BOOLEAN :
        /\ processAck(Self, threadId, connection, continuityOk)
        /\ Untouched

CallProcessProblemReport ==
    \E threadId \in ThreadIds, connection \in ConnectionInputs,
       description \in DescriptionInputs :
        /\ processProblemReport(Self, threadId, connection, description)
        /\ Untouched

CallAcceptProposal ==
    \E id \in Ids(Self), credentialFormats \in CredentialFormatInputs,
       autoAcceptCredential \in AutoAcceptInputs, formatOk \in BOOLEAN :
        /\ acceptProposal(Self, id, credentialFormats, autoAcceptCredential,
                          Absent, formatOk)
        /\ Untouched

CallNegotiateProposal ==
    \E id \in Ids(Self), credentialFormats \in CredentialFormatInputs,
       autoAcceptCredential \in AutoAcceptInputs, formatOk \in BOOLEAN :
        /\ negotiateProposal(Self, id, credentialFormats, autoAcceptCredential,
                             Absent, formatOk)
        /\ Untouched

CallAcceptOffer ==
    \E id \in Ids(Self), credentialFormats \in CredentialFormatInputs,
       autoAcceptCredential \in AutoAcceptInputs, formatOk \in BOOLEAN :
        /\ acceptOffer(Self, id, credentialFormats, autoAcceptCredential, formatOk)
        /\ Untouched

CallNegotiateOffer ==
    \E id \in Ids(Self), credentialFormats \in CredentialFormatInputs,
       autoAcceptCredential \in AutoAcceptInputs, formatOk \in BOOLEAN :
        /\ negotiateOffer(Self, id, credentialFormats, autoAcceptCredential,
                          Absent, formatOk)
        /\ Untouched

CallAcceptRequest ==
    \E id \in Ids(Self), credentialFormats \in CredentialFormatInputs,
       autoAcceptCredential \in AutoAcceptInputs, formatOk \in BOOLEAN :
        /\ acceptRequest(Self, id, credentialFormats, autoAcceptCredential,
                         formatOk)
        /\ Untouched

CallAcceptCredential ==
    \E id \in Ids(Self) :
        /\ acceptCredential(Self, id)
        /\ Untouched

Next ==
    \/ CallCreateProposal
    \/ CallCreateOffer
    \/ CallCreateRequest
    \/ CallProcessProposal
    \/ CallProcessOffer
    \/ CallProcessRequest
    \/ CallProcessCredential
    \/ CallProcessAck
    \/ CallProcessProblemReport
    \/ CallAcceptProposal
    \/ CallNegotiateProposal
    \/ CallAcceptOffer
    \/ CallNegotiateOffer
    \/ CallAcceptRequest
    \/ CallAcceptCredential

Spec == Init /\ [][Next]_vars

-----------------------------------------------------------------------------
(* The transition table of the exchange state machine, as the              *)
(* specification states it: operation -> <<predecessor, successor>>.       *)

TransitionTable ==
    ("processProposal" :> <<"offer-sent", "proposal-received">>) @@
    ("processOffer" :> <<"proposal-sent", "offer-received">>) @@
    ("processRequest" :> <<"offer-sent", "request-received">>) @@
    ("processCredential" :> <<"request-sent", "credential-received">>) @@
    ("processAck" :> <<"credential-issued", "done">>) @@
    ("acceptProposal" :> <<"proposal-received", "offer-sent">>) @@
    ("negotiateProposal" :> <<"proposal-received", "offer-sent">>) @@
    ("acceptOffer" :> <<"offer-received", "request-sent">>) @@
    ("negotiateOffer" :> <<"offer-received", "proposal-sent">>) @@
    ("acceptRequest" :> <<"request-received", "credential-issued">>) @@
    ("acceptCredential" :> <<"credential-received", "done">>)

TransitionOps == DOMAIN TransitionTable

\* The last call was a transition operation on a record that existed before it.
OnExistingRecord ==
    /\ last'.op \in TransitionOps
    /\ last'.id \in Ids(last'.agent)

\* The errors of a call whose format set is empty or whose collaborators fail:
\* no supported format, the continuity assertion of the connection service, a
\* format service that finds no attachment or rejects the payload.
CollaboratorErrors == {"formats", "continuity", "attachment", "format-service"}

\* The call on a v2 record in the legal predecessor state of its operation
\* ends in the successor state, unless its format set is empty or a
\* collaborator fails.
LegalCallAdvances ==
    LET a == last'.agent
        id == last'.id
        edge == TransitionTable[last'.op]
    IN  \/ /\ last'.res = "ok"
           /\ records'[a][id].state = edge[2]
        \/ /\ last'.res = "error"
           /\ last'.error \in CollaboratorErrors

InLegalState ==
    /\ records[last'.agent][last'.id].protocolVersion = "v2"
    /\ records[last'.agent][last'.id].state = TransitionTable[last'.op][1]

\* C1 as stated: every transition operation called on an existing v2 record in
\* its legal predecessor state, with a non-empty format set (and collaborators
\* that do not fail), succeeds and leaves the record in its successor state.
C1_LegalTransitionSucceeds ==
    [][(OnExistingRecord /\ InLegalState) => LegalCallAdvances]_vars

\* C1 as amended: the same, where negotiateProposal and negotiateOffer are
\* called on a record that has a connectionId; on a record without one they
\* fail although the record is in the legal predecessor state.
C1_LegalTransitionSucceedsOnConnection ==
    [][(/\ OnExistingRecord /\ InLegalState
        /\ (last'.op \in {"negotiateProposal", "negotiateOffer"}
               => records[last'.agent][last'.id].connectionId # None))
          => LegalCallAdvances]_vars

\* Every operation of the table has acted from its predecessor state: here
\* negotiateOffer has moved a record with a connection to proposal-sent.
C1_Witness ==
    /\ last.op = "negotiateOffer" /\ last.res = "ok"
    /\ records[last.agent][last.id].state = "proposal-sent"
    /\ records[last.agent][last.id].connectionId # None

\* C2: a transition operation called on a record that is not in the legal
\* predecessor state of the operation fails, leaves every persisted record
\* and every stored message as they were, and emits no event.
C2_IllegalStateRejected ==
    [][(/\ OnExistingRecord
        /\ records[last'.agent][last'.id].state # TransitionTable[last'.op][1])
          => /\ last'.res = "error"
             /\ records' = records
             /\ didcomm' = didcomm
             /\ events' = <<>>]_vars

\* processAck has been rejected on a record that is not in credential-issued
\* although the messages it looks up are stored.
C2_Witness ==
    /\ last.op = "processAck" /\ last.res = "error" /\ last.error = "state"
    /\ last.id \in Ids(last.agent)
    /\ records[last.agent][last.id].state = "done"

\* The edges of the table, and abandonment of an exchange that is not over.
TableEdges ==
    {<<"proposal-sent", "offer-received">>, <<"offer-sent", "proposal-received">>,
     <<"proposal-received", "offer-sent">>, <<"offer-received", "request-sent">>,
     <<"offer-received", "proposal-sent">>, <<"offer-sent", "request-received">>,
     <<"request-received", "credential-issued">>,
     <<"request-sent", "credential-received">>,
     <<"credential-received", "done">>, <<"credential-issued", "done">>}
    \cup {<<s, "abandoned">> : s \in CredentialState \ {"done", "abandoned"}}

\* C3: no record is removed, and every change of the state of a persisted
\* record is an edge of the table.
C3_OnlyTableEdges ==
    [][\A a \in Agents : \A id \in Ids(a) :
          /\ id <= Len(records'[a])
          /\ records'[a][id].state # records[a][id].state
                => <<records[a][id].state, records'[a][id].state>> \in TableEdges]_vars

\* A record has changed state: a counter-proposal from offer-received.
C3_Witness ==
    /\ last.res = "ok" /\ Len(events) = 1
    /\ events[1].previousState = "offer-received"
    /\ records[last.agent][last.id].state = "proposal-sent"

\* The inbound handler `op` of Self takes this step on the message that came
\* with this thread id over this connection.
Handles(op, threadId, connection, message) ==
    \E continuityOk, formatOk \in BOOLEAN :
        CASE op = "processProposal" ->
                processProposal(Self, threadId, connection, message, continuityOk,
                                formatOk)
          [] op = "processOffer" ->
                processOffer(Self, threadId, connection, message, continuityOk,
                             formatOk)
          [] op = "processRequest" ->
                processRequest(Self, threadId, connection, message, continuityOk,
                               formatOk)
          [] op = "processCredential" ->
                processCredential(Self, threadId, connection, message,
                                  continuityOk, formatOk)

FirstContactState ==
    ("processProposal" :> "proposal-received") @@
    ("processOffer" :> "offer-received") @@
    ("processRequest" :> "request-received")

FirstContactOps == DOMAIN FirstContactState

\* What a first contact leaves: one record more, in the received state of the
\* message, with the thread id and connection id of the message, and the one
\* event that carries it with no previous state.
FirstContactSaved(op, threadId, connection) ==
    LET n == Len(records'[Self])
        r == records'[Self][n]
    IN  /\ n = Len(records[Self]) + 1
        /\ \A i \in Ids(Self) : records'[Self][i] = records[Self][i]
        /\ r.state = FirstContactState[op]
        /\ r.threadId = threadId
        /\ r.connectionId = connection
        /\ r.protocolVersion = "v2"
        /\ last'.saves = 1 /\ last'.updates = 0
        /\ Len(events') = 1
        /\ events'[1].previousState = None
        /\ events'[1].credentialRecord = r

\* C5: when processProposal, processOffer or processRequest handles a message
\* that no record matches, it saves exactly one new record, in the received
\* state of the message, with the thread id of the message, the id of the
\* inbound connection (none without a connection) and protocol version v2,
\* and emits exactly one event, with no previous state; it fails only where
\* the format set is empty or a collaborator fails.
C5_FirstContact ==
    [][\A op \in FirstContactOps, threadId \in ThreadIds,
          connection \in ConnectionInputs, message \in InboundMessages :
          (/\ last'.op = op
           /\ Matching(Self, threadId, connection) = {}
           /\ Handles(op, threadId, connection, message))
             => \/ /\ last'.res = "ok"
                   /\ FirstContactSaved(op, threadId, connection)
                \/ /\ last'.res = "error"
                   /\ last'.error \in CollaboratorErrors]_vars

\* A request without a connection has made the first record of its thread.
C5_Witness ==
    /\ last.op = "processRequest" /\ last.res = "ok" /\ last.saves = 1
    /\ Len(events) = 1 /\ events[1].previousState = None
    /\ records[last.agent][last.id].state = "request-received"
    /\ records[last.agent][last.id].connectionId = None
    /\ records[last.agent][last.id].protocolVersion = "v2"

\* C6: when an inbound proposal, offer or request carries no format that a
\* registered format service supports, the handler fails, no record is
\* created, no record and no stored message is changed, and no event is
\* emitted.
C6_NoSupportedFormat ==
    [][\A op \in FirstContactOps, threadId \in ThreadIds,
          connection \in ConnectionInputs, message \in InboundMessages :
          (/\ last'.op = op
           /\ getFormatServicesFromMessage(message.formats) = <<>>
           /\ Handles(op, threadId, connection, message))
             => /\ last'.res = "error"
                /\ records' = records
                /\ didcomm' = didcomm
                /\ events' = <<>>]_vars

\* A proposal without a supported format has been rejected although its
\* thread has a record in the state that a proposal is accepted in.
C6_Witness ==
    /\ last.op = "processProposal" /\ last.res = "error"
    /\ last.error = "formats"
    /\ last.id \in Ids(last.agent)
    /\ records[last.agent][last.id].state = "offer-sent"
    /\ events = <<>>

\* C7: processProblemReport for a thread and connection that one record
\* matches succeeds whatever the state of that record, writes the reported
\* code and text into its errorMessage and nothing else, and persists it with
\* exactly one update.
C7_ProblemReportRecorded ==
    [][\A threadId \in ThreadIds, connection \in ConnectionInputs,
          description \in DescriptionInputs :
          (/\ last'.op = "processProblemReport"
           /\ Cardinality(Matching(Self, threadId, connection)) = 1
           /\ processProblemReport(Self, threadId, connection, description))
             => LET id == CHOOSE i \in Matching(Self, threadId, connection) : TRUE
                IN  /\ last'.res = "ok" /\ last'.id = id
                    /\ last'.updates = 1 /\ last'.saves = 0
                    /\ records'[Self] =
                          [records[Self] EXCEPT
                              ![id].errorMessage =
                                  Some(<<description.code, description.en>>)]
                    /\ didcomm' = didcomm]_vars

\* A problem report has been recorded on an exchange that is done.
C7_Witness ==
    /\ last.op = "processProblemReport" /\ last.res = "ok" /\ last.updates = 1
    /\ records[last.agent][last.id].state = "done"
    /\ IsPresent(records[last.agent][last.id].errorMessage)

\* C8: processing an inbound problem report for a record in a state that is
\* not terminal takes that record to abandoned.
C8_ProblemReportAbandons ==
    [][\A threadId \in ThreadIds, connection \in ConnectionInputs,
          description \in DescriptionInputs :
          (/\ last'.op = "processProblemReport"
           /\ Cardinality(Matching(Self, threadId, connection)) = 1
           /\ processProblemReport(Self, threadId, connection, description))
             => LET id == CHOOSE i \in Matching(Self, threadId, connection) : TRUE
                IN  records[Self][id].state \notin TerminalStates
                       => records'[Self][id].state = "abandoned"]_vars

-----------------------------------------------------------------------------
(* The end-to-end scenario: two instances, an issuer and a holder, and the *)
(* messages each one creates delivered to the other.  The collaborators    *)
(* do not fail; `step` counts the operations done.                         *)

Issuer == "faber"
Holder == "alice"

ScenarioFormats == {<<"indy">>, <<"jsonld">>, <<"indy", "jsonld">>}

ScenarioAutoAccept == {None} \cup AutoAcceptCredential

\* The message of `type` that agent `a` stored for its record 1.
Sent(a, type) == Get(findAgentMessage(a, 1, type))

IssuerCreatesOffer ==
    /\ step = 0
    /\ \E connection \in ConnectionInputs, credentialFormats \in ScenarioFormats,
          autoAcceptCredential \in ScenarioAutoAccept :
          createOffer(Issuer, connection, credentialFormats, autoAcceptCredential,
                      Absent, TRUE)
    /\ step' = 1
    /\ UNCHANGED <<config, auto, race>>

HolderProcessesOffer ==
    /\ step = 1
    /\ \E connection \in ConnectionInputs :
          processOffer(Holder, records[Issuer][1].threadId, connection,
                       Sent(Issuer, "offer"), TRUE, TRUE)
    /\ step' = 2
    /\ UNCHANGED <<config, auto, race>>

HolderAcceptsOffer ==
    /\ step = 2
    /\ \E autoAcceptCredential \in ScenarioAutoAccept :
          acceptOffer(Holder, 1, <<>>, autoAcceptCredential, TRUE)
    /\ step' = 3
    /\ UNCHANGED <<config, auto, race>>

IssuerProcessesRequest ==
    /\ step = 3
    /\ processRequest(Issuer, records[Holder][1].threadId,
                      records[Issuer][1].connectionId, Sent(Holder, "request"),
                      TRUE, TRUE)
    /\ step' = 4
    /\ UNCHANGED <<config, auto, race>>

IssuerAcceptsRequest ==
    /\ step = 4
    /\ \E autoAcceptCredential \in ScenarioAutoAccept :
          acceptRequest(Issuer, 1, <<>>, autoAcceptCredential, TRUE)
    /\ step' = 5
    /\ UNCHANGED <<config, auto, race>>

HolderProcessesCredential ==
    /\ step = 5
    /\ processCredential(Holder, records[Issuer][1].threadId,
                         records[Holder][1].connectionId,
                         Sent(Issuer, "credential"), TRUE, TRUE)
    /\ step' = 6
    /\ UNCHANGED <<config, auto, race>>

HolderAcceptsCredential ==
    /\ step = 6
    /\ acceptCredential(Holder, 1)
    /\ step' = 7
    /\ UNCHANGED <<config, auto, race>>

IssuerProcessesAck ==
    /\ step = 7
    /\ processAck(Issuer, records[Holder][1].threadId,
                  records[Issuer][1].connectionId, TRUE)
    /\ step' = 8
    /\ UNCHANGED <<config, auto, race>>

NextE2E ==
    \/ IssuerCreatesOffer
    \/ HolderProcessesOffer
    \/ HolderAcceptsOffer
    \/ IssuerProcessesRequest
    \/ IssuerAcceptsRequest
    \/ HolderProcessesCredential
    \/ HolderAcceptsCredential
    \/ IssuerProcessesAck

SpecE2E == Init /\ [][NextE2E]_vars

\* The state of the record of agent `a`, "none" while it has no record.
StateOf(a) == IF Len(records[a]) = 0 THEN None ELSE records[a][1].state

\* The states of the issuer's and of the holder's record after each step.
HappyPath ==
    <<<<"offer-sent", None>>, <<"offer-sent", "offer-received">>,
      <<"offer-sent", "request-sent">>, <<"request-received", "request-sent">>,
      <<"credential-issued", "request-sent">>,
      <<"credential-issued", "credential-received">>,
      <<"credential-issued", "done">>, <<"done", "done">>>>

\* C4: every step of the happy path succeeds and leaves the issuer's and the
\* holder's record in the states of the scenario; after the last step both
\* are done.
C4_HappyPath ==
    step > 0 =>
        /\ last.res = "ok"
        /\ <<StateOf(Issuer), StateOf(Holder)>> = HappyPath[step]
        /\ Len(records[Issuer]) = 1
        /\ Len(records[Holder]) = IF step > 1 THEN 1 ELSE 0

\* The scenario has run to its end.
C4_Witness ==
    /\ step = 8
    /\ last.op = "processAck" /\ last.res = "ok"
    /\ StateOf(Issuer) = "done" /\ StateOf(Holder) = "done"

-----------------------------------------------------------------------------
(* The auto-accept evaluation on its own: one exchange of Self with any    *)
(* policy and any stored messages an exchange can hold, evaluated for any  *)
(* incoming message and any answers of the format services.                *)

Attributes1 == <<<<"name", "alice">>>>
Attributes2 == <<<<"name", "bob">>>>

StoredFormats == {<<"hlindy/a">>, <<"aries/ld", "hlindy/a">>}
StoredPreviews == {Absent, Some(Attributes1)}
IncomingFormats == {<<"hlindy/b">>, <<"hlindy/b", "aries/ld">>}
IncomingPreviews == {Absent, Some(<<>>), Some(Attributes1), Some(Attributes2)}

Optional(S) == {Absent} \cup {Some(x) : x \in S}

\* The messages an exchange can hold: at least one, and a request only
\* with the offer it answers unless the request started the exchange.
StoredMessages ==
    {m \in [proposal : Optional({Message(f, p) : f \in StoredFormats,
                                                 p \in StoredPreviews}),
            offer : Optional({Message(f, p) : f \in StoredFormats,
                                              p \in StoredPreviews}),
            request : Optional({Message(f, Absent) : f \in StoredFormats}),
            credential : {Absent},
            ack : {Absent}] :
        /\ IsPresent(m.proposal) \/ IsPresent(m.offer) \/ IsPresent(m.request)
        /\ (IsPresent(m.proposal) /\ IsPresent(m.request)) => IsPresent(m.offer)}

\* The state of an exchange that holds these messages.
StateHolding(m) ==
    IF IsPresent(m.request) THEN RequestSent
    ELSE IF IsPresent(m.offer) THEN OfferReceived
    ELSE ProposalSent

Answers == [formatServiceMap -> BOOLEAN]

InitAuto ==
    /\ \E m \in StoredMessages, autoAcceptCredential \in {None} \cup AutoAcceptCredential :
          /\ records = [a \in Agents |->
                          IF a = Self
                          THEN <<CredentialExchangeRecord("c1", 1, StateHolding(m),
                                                          autoAcceptCredential)>>
                          ELSE <<>>]
          /\ didcomm = [a \in Agents |-> IF a = Self THEN <<m>> ELSE <<>>]
    /\ config \in AutoAcceptCredential
    /\ last = NoCall
    /\ used = <<>>
    /\ events = <<>>
    /\ step = 0
    /\ auto = NoEvaluation
    /\ race = NoneInFlight

\* Mutant: the read emits a state-changed event for the record.
Unread_Emits ==
    /\ events' = <<StateChangedEvent(1, records[Self][1],
                                      records[Self][1].state)>>
    /\ UNCHANGED <<records, didcomm, config, last, used, step, race>>

Unread == UNCHANGED <<records, didcomm, config, last, used, events, step, race>>

EvaluateProposal ==
    /\ \E f \in IncomingFormats, p \in IncomingPreviews, answers \in Answers :
          auto' = shouldAutoRespondToProposal(Self, 1, Message(f, p), answers)
    /\ Unread

EvaluateOffer ==
    /\ \E f \in IncomingFormats, p \in IncomingPreviews, answers \in Answers :
          auto' = shouldAutoRespondToOffer(Self, 1, Message(f, p), answers)
    /\ Unread

EvaluateRequest ==
    /\ \E f \in IncomingFormats, answers \in Answers :
          auto' = shouldAutoRespondToRequest(Self, 1, Message(f, Absent), answers)
    /\ Unread

EvaluateCredential ==
    /\ \E f \in IncomingFormats, answers \in Answers :
          auto' = shouldAutoRespondToCredential(Self, 1, Message(f, Absent),
                                                answers)
    /\ Unread

ProblemReportTexts == {"reason", "declined"}

GetFormatData ==
    /\ auto' = getFormatData(Self, 1)
    /\ Unread

CreateProblemReport ==
    /\ \E message \in ProblemReportTexts : auto' = createProblemReport(message)
    /\ Unread

NextAuto ==
    \/ EvaluateProposal
    \/ EvaluateOffer
    \/ EvaluateRequest
    \/ EvaluateCredential
    \/ GetFormatData
    \/ CreateProblemReport

SpecAuto == InitAuto /\ [][NextAuto]_vars

\* The policy in force for the exchange: its own override, else the default
\* of the module configuration.
EffectivePolicy ==
    IF records[Self][1].autoAcceptCredential # None
    THEN records[Self][1].autoAcceptCredential
    ELSE config

AutoFns ==
    {"shouldAutoRespondToProposal", "shouldAutoRespondToOffer",
     "shouldAutoRespondToRequest", "shouldAutoRespondToCredential"}

\* C9: under the policy never every shouldAutoRespondTo* returns false, and
\* under the policy always it returns true, without reading a stored message
\* and without invoking the predicate of a format service.
C9_AlwaysNeverImmediate ==
    (auto.fn \in AutoFns /\ EffectivePolicy \in {Always, Never})
        => /\ auto.result = IF EffectivePolicy = Always THEN "true" ELSE "false"
           /\ auto.reads = {}
           /\ auto.calls = <<>>

\* A credential has been evaluated under a record's override never, against
\* the default always, on an exchange that holds a request in two formats.
C9_Witness ==
    /\ auto.fn = "shouldAutoRespondToCredential" /\ auto.result = "false"
    /\ records[Self][1].autoAcceptCredential = Never /\ config = Always
    /\ IsPresent(didcomm[Self][1].request)
    /\ Len(Get(didcomm[Self][1].request).formats) = 2

\* The step evaluates `fn` for this incoming message and these answers.
Evaluates(fn, message, answers) ==
    auto' = CASE fn = "shouldAutoRespondToProposal" ->
                    shouldAutoRespondToProposal(Self, 1, message, answers)
              [] fn = "shouldAutoRespondToOffer" ->
                    shouldAutoRespondToOffer(Self, 1, message, answers)
              [] fn = "shouldAutoRespondToRequest" ->
                    shouldAutoRespondToRequest(Self, 1, message, answers)
              [] fn = "shouldAutoRespondToCredential" ->
                    shouldAutoRespondToCredential(Self, 1, message, answers)

\* C10: under the policy contentApproved, with two or more format services
\* resolved, an evaluation in which the predicate of a format service returns
\* false returns false, whatever the other services answer and whatever the
\* previews are; and no evaluation returns true while a resolved service
\* answers false.
C10_AnyFalseIsFalse ==
    [][\A fn \in AutoFns, f \in IncomingFormats, p \in IncomingPreviews,
          answers \in Answers :
          (/\ EffectivePolicy = ContentApproved
           /\ Len(auto'.formatServices) >= 2
           /\ auto'.fn = fn
           /\ Evaluates(fn, Message(f, p), answers))
             => /\ (\E i \in 1..Len(auto'.calls) : ~auto'.calls[i].result)
                       => auto'.result = "false"
                /\ (\E i \in 1..Len(auto'.formatServices) :
                       ~answers[auto'.formatServices[i]])
                       => auto'.result # "true"]_vars

\* Two services were asked about a proposal whose previews agree: the first
\* answered true, the second false, and the evaluation returned false.
C10_Witness ==
    /\ auto.fn = "shouldAutoRespondToProposal"
    /\ EffectivePolicy = ContentApproved
    /\ Len(auto.formatServices) = 2 /\ Len(auto.calls) = 2
    /\ auto.calls[1].result /\ ~auto.calls[2].result
    /\ auto.result = "false"

\* C11: every shouldAutoRespondTo* evaluation decides under the record's own
\* auto-accept setting when the record has one, and under the default of the
\* module configuration otherwise: an override always or never fixes the
\* answer whatever the default is, an override contentApproved makes the
\* evaluation read the stored messages whatever the default is, and the
\* default has these effects only on a record without an override.
C11_OverrideWins ==
    auto.fn \in AutoFns =>
        LET override == records[Self][1].autoAcceptCredential
            ruledBy(policy) ==
                \/ policy = Always /\ auto.result = "true" /\ auto.reads = {}
                \/ policy = Never /\ auto.result = "false" /\ auto.reads = {}
                \/ policy = ContentApproved /\ auto.reads # {}
        IN  IF override # None THEN ruledBy(override) ELSE ruledBy(config)

\* An offer has been evaluated on a record whose override is never while
\* the default is always, and the answer is false.
C11_Witness ==
    /\ auto.fn = "shouldAutoRespondToOffer" /\ auto.result = "false"
    /\ auto.reads = {}
    /\ records[Self][1].autoAcceptCredential = Never /\ config = Always
    /\ IsPresent(didcomm[Self][1].proposal)

\* The stored message an evaluation of a proposal or of an offer compares
\* the incoming message with.
Counterpart(fn) ==
    IF fn = "shouldAutoRespondToProposal"
    THEN didcomm[Self][1].offer ELSE didcomm[Self][1].proposal

\* C12: under the policy contentApproved, with every format service
\* answering true, shouldAutoRespondToProposal and shouldAutoRespondToOffer
\* return false when exactly one of the proposal and the offer carries a
\* preview (even a preview with no attribute), compare the previews as sets
\* of name/value pairs when both carry one, and return true when neither
\* carries one.
C12_PreviewRules ==
    [][\A fn \in {"shouldAutoRespondToProposal", "shouldAutoRespondToOffer"},
          f \in IncomingFormats, p \in IncomingPreviews, answers \in Answers :
          (/\ EffectivePolicy = ContentApproved
           /\ auto'.fn = fn
           /\ auto'.result # "raise"
           /\ \A service \in formatServiceMap : answers[service]
           /\ IsPresent(Counterpart(fn))
           /\ Evaluates(fn, Message(f, p), answers))
             => LET stored == Get(Counterpart(fn)).preview
                IN  auto'.result =
                        IF IsPresent(p) # IsPresent(stored) THEN "false"
                        ELSE IF IsPresent(p)
                        THEN Answer(Range(Get(p)) = Range(Get(stored)))
                        ELSE "true"]_vars

\* C13: the four shouldAutoRespondTo* evaluations, getFormatData and
\* createProblemReport write nothing: whatever the input and the policy, the
\* records (state, connectionId, errorMessage, auto-accept setting) and the
\* stored messages are after the call what they were before it, and no event
\* is emitted.
C13_ReadOnly ==
    [][/\ records' = records
       /\ didcomm' = didcomm
       /\ events' = events]_vars

\* getFormatData has returned the data of an exchange that holds a proposal
\* in two formats with a preview, and the exchange is as it was stored.
C13_Witness ==
    /\ auto.fn = "getFormatData"
    /\ auto.data[1].proposal = Some(<<"jsonld", "indy">>)
    /\ auto.data[1].proposalAttributes = Some(Attributes1)
    /\ auto.data[1].credential = Absent
    /\ records[Self][1].state = ProposalSent
    /\ IsPresent(didcomm[Self][1].proposal)
    /\ events = <<>>

-----------------------------------------------------------------------------
(* The operations that answer a message, on an exchange as it is found in  *)
(* the store: in the state that awaits the answer, holding the message to  *)
(* answer.  The stored message may name formats no registered service      *)
(* supports: the registry is built from the configuration at each start,   *)
(* and the store outlives it.                                              *)

AcceptOps == {"acceptProposal", "acceptOffer", "acceptRequest"}

\* The stored message an accept operation answers.
AnsweredType(op) ==
    CASE op = "acceptProposal" -> "proposal"
      [] op = "acceptOffer" -> "offer"
      [] op = "acceptRequest" -> "request"

\* The message an accept operation builds.
AnswerType(op) ==
    CASE op = "acceptProposal" -> "offer"
      [] op = "acceptOffer" -> "request"
      [] op = "acceptRequest" -> "credential"

AcceptAssertState(op) ==
    CASE op = "acceptProposal" -> acceptProposalAssertState
      [] op = "acceptOffer" -> acceptOfferAssertState
      [] op = "acceptRequest" -> acceptRequestAssertState

AnsweredFormats == {<<"unknown/x">>, <<"hlindy/b">>, <<"hlindy/b", "aries/ld">>}

InitAccept ==
    /\ \E op \in AcceptOps, f \in AnsweredFormats, connection \in ConnectionInputs :
          /\ records = [a \in Agents |->
                          IF a = Self
                          THEN <<CredentialExchangeRecord(connection, 1,
                                                          AcceptAssertState(op),
                                                          None)>>
                          ELSE <<>>]
          /\ didcomm = [a \in Agents |->
                          IF a = Self
                          THEN <<[NoMessages EXCEPT
                                     ![AnsweredType(op)] = Some(Message(f, Absent))]>>
                          ELSE <<>>]
    /\ config = Never
    /\ last = NoCall
    /\ used = <<>>
    /\ events = <<>>
    /\ step = 0
    /\ auto = NoEvaluation
    /\ race = NoneInFlight

\* The keys of the caller's credentialFormats object: none, the key of each
\* registered service, and a key that is not registered.
AcceptFormatInputs == {<<>>, <<"indy">>, <<"jsonld">>, <<"other">>}

AnswerProposal ==
    \E credentialFormats \in AcceptFormatInputs,
       autoAcceptCredential \in AutoAcceptInputs, formatOk \in BOOLEAN :
        /\ acceptProposal(Self, 1, credentialFormats, autoAcceptCredential,
                          Absent, formatOk)
        /\ Untouched

AnswerOffer ==
    \E credentialFormats \in AcceptFormatInputs,
       autoAcceptCredential \in AutoAcceptInputs, formatOk \in BOOLEAN :
        /\ acceptOffer(Self, 1, credentialFormats, autoAcceptCredential, formatOk)
        /\ Untouched

AnswerRequest ==
    \E credentialFormats \in AcceptFormatInputs,
       autoAcceptCredential \in AutoAcceptInputs, formatOk \in BOOLEAN :
        /\ acceptRequest(Self, 1, credentialFormats, autoAcceptCredential,
                         formatOk)
        /\ Untouched

NextAccept ==
    \/ AnswerProposal
    \/ AnswerOffer
    \/ AnswerRequest

SpecAccept == InitAccept /\ [][NextAccept]_vars

\* The step is this accept operation with these inputs.
Accepts(op, id, credentialFormats, autoAcceptCredential, formatOk) ==
    CASE op = "acceptProposal" ->
            acceptProposal(Self, id, credentialFormats, autoAcceptCredential,
                           Absent, formatOk)
      [] op = "acceptOffer" ->
            acceptOffer(Self, id, credentialFormats, autoAcceptCredential,
                        formatOk)
      [] op = "acceptRequest" ->
            acceptRequest(Self, id, credentialFormats, autoAcceptCredential,
                          formatOk)

\* C14: when acceptProposal, acceptOffer or acceptRequest is called in its
\* legal state with caller formats that resolve to no format service (none
\* given, or only keys that are not registered), the format services handed
\* to the coordinator are those resolved from the stored message answered,
\* and the call succeeds when the format services do; when that message
\* resolves to no service either, the call fails and the record keeps its
\* state.
C14_FallbackToCounterpart ==
    [][\A op \in AcceptOps, id \in Ids(Self),
          credentialFormats \in AcceptFormatInputs,
          autoAcceptCredential \in AutoAcceptInputs, formatOk \in BOOLEAN :
          (/\ last'.op = op
           /\ getFormatServices(credentialFormats) = <<>>
           /\ records[Self][id].state = AcceptAssertState(op)
           /\ Accepts(op, id, credentialFormats, autoAcceptCredential, formatOk))
             => LET answered == findAgentMessage(Self, id, AnsweredType(op))
                    fromMessage ==
                        getFormatServicesFromMessage(Get(answered).formats)
                IN  IF fromMessage = <<>>
                    THEN /\ last'.res = "error"
                         /\ records' = records
                         /\ didcomm' = didcomm
                    ELSE /\ formatOk => last'.res = "ok"
                         /\ last'.res = "ok"
                               => /\ used' = fromMessage
                                  /\ findAgentMessage(Self, id, AnswerType(op))'
                                        = Some(CoordinatorMessage(fromMessage,
                                                                  Absent))]_vars

\* acceptOffer was called with a key that is not registered and built its
\* request with the two services of the offer.
C14_Witness ==
    /\ last.op = "acceptOffer" /\ last.res = "ok"
    /\ used = <<"indy", "jsonld">>
    /\ records[Self][1].state = RequestSent
    /\ Get(didcomm[Self][1].offer).formats = <<"hlindy/b", "aries/ld">>
    /\ Len(Get(didcomm[Self][1].request).formats) = 2

\* acceptProposal was refused on a stored proposal none of whose formats a
\* registered service supports, and the record is still in
\* proposal-received.
C14_WitnessNoFormat ==
    /\ last.op = "acceptProposal" /\ last.error = "formats"
    /\ Get(didcomm[Self][1].proposal).formats = <<"unknown/x">>
    /\ records[Self][1].state = ProposalReceived
    /\ ~IsPresent(didcomm[Self][1].offer)

C15_WitnessRefused ==
    /\ last.op = "acceptOffer" /\ last.error = "attachment"
    /\ Get(didcomm[Self][1].offer).formats = <<"hlindy/b">>
    /\ ~IsPresent(didcomm[Self][1].request)
    /\ records[Self][1].state = OfferReceived

NegotiateOps == {"negotiateProposal", "negotiateOffer"}

NegotiateAssertState(op) ==
    IF op = "negotiateProposal"
    THEN negotiateProposalAssertState ELSE negotiateOfferAssertState

NegotiateState(op) ==
    IF op = "negotiateProposal" THEN negotiateProposalState ELSE negotiateOfferState

\* The step is this negotiate operation with these inputs.
Negotiates(op, id, credentialFormats, autoAcceptCredential, formatOk) ==
    IF op = "negotiateProposal"
    THEN negotiateProposal(Self, id, credentialFormats, autoAcceptCredential,
                           Absent, formatOk)
    ELSE negotiateOffer(Self, id, credentialFormats, autoAcceptCredential,
                        Absent, formatOk)

\* C16: negotiateProposal and negotiateOffer on a record without a
\* connectionId fail, store no message, emit no event and leave the record
\* as it was, whatever its state; on a record with a connectionId in the
\* legal state, with formats that resolve to a format service that builds
\* its payload, they succeed and the record takes the state of the
\* operation.
C16_NegotiateNeedsConnection ==
    [][\A op \in NegotiateOps, id \in Ids(Self),
          credentialFormats \in CredentialFormatInputs,
          autoAcceptCredential \in AutoAcceptInputs, formatOk \in BOOLEAN :
          (/\ last'.op = op
           /\ Negotiates(op, id, credentialFormats, autoAcceptCredential,
                         formatOk))
             => IF records[Self][id].connectionId = None
                THEN /\ last'.res = "error"
                     /\ records' = records
                     /\ didcomm' = didcomm
                     /\ events' = <<>>
                ELSE (/\ records[Self][id].state = NegotiateAssertState(op)
                      /\ getFormatServices(credentialFormats) # <<>>
                      /\ formatOk)
                        => /\ last'.res = "ok"
                           /\ records'[Self][id].state = NegotiateState(op)]_vars

\* negotiateOffer was refused for want of a connection on a record in
\* offer-received, its legal state, which holds the offer and no proposal.
C16_Witness ==
    /\ last.op = "negotiateOffer" /\ last.error = "connection"
    /\ records[Self][1].connectionId = None
    /\ records[Self][1].state = OfferReceived
    /\ ~IsPresent(didcomm[Self][1].proposal)

\* negotiateProposal succeeded on a record with a connection.
C16_WitnessOnConnection ==
    /\ last.op = "negotiateProposal" /\ last.res = "ok"
    /\ records[Self][1].connectionId = "c1"
    /\ records[Self][1].state = OfferSent
    /\ IsPresent(didcomm[Self][1].proposal) /\ IsPresent(didcomm[Self][1].offer)

\* The message each operation that sends one builds for its record.
OutboundType(op) ==
    CASE op \in {"createProposal", "negotiateOffer"} -> "proposal"
      [] op \in {"createOffer", "acceptProposal", "negotiateProposal"} -> "offer"
      [] op \in {"createRequest", "acceptOffer"} -> "request"
      [] op = "acceptRequest" -> "credential"
      [] op = "acceptCredential" -> "ack"

StoringOps ==
    {"createProposal", "createOffer", "createRequest", "acceptProposal",
     "negotiateProposal", "acceptOffer", "negotiateOffer", "acceptRequest"}

\* The message of this type is stored for the record of the last call, in
\* the formats of the format services the call used.
OutboundStored(type) ==
    LET stored == findAgentMessage(Self, last.id, type)
    IN  /\ IsPresent(stored)
        /\ Get(stored).formats = CoordinatorMessage(used, Absent).formats

AttachmentOps ==
    {"processProposal", "processOffer", "processRequest", "processCredential"}

\* C18: when processProposal, processOffer, processRequest or
\* processCredential has processed an inbound message, the format services
\* it handed to the coordinator are those resolved from the formats of that
\* message, not those of another message.
C18_OwnFormats ==
    [][\A op \in AttachmentOps, threadId \in ThreadIds,
          connection \in ConnectionInputs, message \in CredentialMessages :
          (/\ last'.op = op
           /\ last'.res = "ok"
           /\ Handles(op, threadId, connection, message))
             => used' = getFormatServicesFromMessage(message.formats)]_vars

\* The same for the three handlers that resolve the format services from
\* the message they are given.
C18_OwnFormatsButCredential ==
    [][\A op \in AttachmentOps \ {"processCredential"}, threadId \in ThreadIds,
          connection \in ConnectionInputs, message \in InboundMessages :
          (/\ last'.op = op
           /\ last'.res = "ok"
           /\ Handles(op, threadId, connection, message))
             => used' = getFormatServicesFromMessage(message.formats)]_vars

\* The type of the message each inbound handler stores.
InboundType(op) ==
    CASE op = "processProposal" -> "proposal"
      [] op = "processOffer" -> "offer"
      [] op = "processRequest" -> "request"
      [] op = "processCredential" -> "credential"

\* The states of a record whose owner receives messages of this type:
\* proposals and requests come to the issuer, offers and credentials to the
\* holder, and a record never changes sides.
StatesOfReceiver(type) ==
    IF type \in {"proposal", "request"}
    THEN {ProposalReceived, OfferSent, RequestReceived, CredentialIssued, Done}
    ELSE {ProposalSent, OfferReceived, RequestSent, CredentialReceived, Done}

\* The step handles, on the thread and the connection of record id, the
\* very message of this handler that the record holds as received.
Redelivers(op, id, message) ==
    /\ last'.op = op
    /\ records[Self][id].state \in StatesOfReceiver(InboundType(op))
    /\ findAgentMessage(Self, id, InboundType(op)) = Some(message)
    /\ Handles(op, records[Self][id].threadId, records[Self][id].connectionId,
               message)

\* The step handles again the acknowledgement the last call handled.
RedeliversAck(id) ==
    /\ last.op = "processAck" /\ last.res = "ok" /\ last.id = id
    /\ \E continuityOk \in BOOLEAN :
          processAck(Self, records[Self][id].threadId,
                     records[Self][id].connectionId, continuityOk)

\* C19 as stated: whenever a proposal, offer, request or credential that was
\* processed with success (the record holds it as received) is processed
\* again, or an acknowledgement is, the call fails and the store is as it
\* was: no second record, and the record in the state it had.
C19_DuplicateFails ==
    [][/\ \A op \in AttachmentOps, id \in Ids(Self),
             message \in CredentialMessages :
             Redelivers(op, id, message)
                => last'.res = "error" /\ records' = records
       /\ \A id \in Ids(Self) :
             RedeliversAck(id) => last'.res = "error" /\ records' = records]_vars

\* The same for a message that is processed again before any other
\* operation on the store: the record is still in the state the first
\* processing produced.
C19_ImmediateDuplicateFails ==
    [][/\ \A op \in AttachmentOps, id \in Ids(Self),
             message \in CredentialMessages :
             (/\ last.op = op /\ last.res = "ok" /\ last.id = id
              /\ Redelivers(op, id, message))
                => last'.res = "error" /\ records' = records
       /\ \A id \in Ids(Self) :
             RedeliversAck(id) => last'.res = "error" /\ records' = records]_vars

-----------------------------------------------------------------------------
(* Several exchanges in one store: the operations of one instance, called  *)
(* one after the other, on any thread and connection, with messages and    *)
(* caller formats the format services accept.                              *)

CanCreatePair == Len(records[Self]) < MaxPairRecords

PairMessage == Message(<<"hlindy/b">>, Absent)

PairFormats == <<"indy">>

CreateOps == {"createProposal", "createOffer", "createRequest"}

\* The step is this create operation on this connection.
Creates(op, connection) ==
    CASE op = "createProposal" ->
            createProposal(Self, connection, PairFormats, None, Absent, TRUE)
      [] op = "createOffer" ->
            createOffer(Self, connection, PairFormats, None, Absent, TRUE)
      [] op = "createRequest" ->
            createRequest(Self, connection, PairFormats, None, TRUE)

PairsCreate ==
    /\ CanCreatePair
    /\ \E op \in CreateOps, connection \in ConnectionInputs :
          /\ op # "createOffer" => connection # None
          /\ Creates(op, connection)
    /\ Untouched

PairsProcess ==
    /\ \E op \in AttachmentOps, threadId \in ThreadIds,
          connection \in ConnectionInputs :
          /\ Matching(Self, threadId, connection) # {} \/ CanCreatePair
          /\ Handles(op, threadId, connection, PairMessage)
    /\ Untouched

PairsProcessAck ==
    /\ \E threadId \in ThreadIds, connection \in ConnectionInputs :
          processAck(Self, threadId, connection, TRUE)
    /\ Untouched

PairsAnswer ==
    /\ \E id \in Ids(Self) :
          \/ \E op \in AcceptOps : Accepts(op, id, <<>>, None, TRUE)
          \/ \E op \in NegotiateOps : Negotiates(op, id, PairFormats, None, TRUE)
          \/ acceptCredential(Self, id)
    /\ Untouched

NextPairs ==
    \/ PairsCreate
    \/ PairsProcess
    \/ PairsProcessAck
    \/ PairsAnswer

SpecPairs == Init /\ [][NextPairs]_vars

\* C20: the operations being called one after the other, no two records of
\* a store carry the same thread id together with the same connection id.
C20_OneRecordPerPair ==
    \A i, j \in Ids(Self) :
        (/\ records[Self][i].threadId = records[Self][j].threadId
         /\ records[Self][i].connectionId = records[Self][j].connectionId)
            => i = j

\* The store holds two exchanges on one thread: one without a connection
\* and one on a connection, each past its first message.
C20_Witness ==
    /\ Len(records[Self]) = 2
    /\ records[Self][1].threadId = records[Self][2].threadId
    /\ records[Self][1].connectionId = None
    /\ records[Self][2].connectionId = "c1"
    /\ records[Self][1].state = Done

-----------------------------------------------------------------------------
(* Inbound handlers in flight together.  A handler is an async function:   *)
(* it runs without interruption from one await to the next, and at an      *)
(* await another invocation may run.  The awaits of processProposal,       *)
(* processOffer and processRequest are the lookup of the record, the two   *)
(* findAgentMessage reads (record found), the call of the coordinator, and *)
(* the save or update of the record.  All invocations are for one thread   *)
(* and one connection.                                                     *)

\* The thread of the invocations: the first thread id.
RaceThread == CHOOSE t \in ThreadIds : \A u \in ThreadIds : t <= u

\* The state each handler asserts on the record it found, and the state it
\* leaves the record in.
HandlerAssertState(op) ==
    CASE op = "processProposal" -> processProposalAssertState
      [] op = "processOffer" -> processOfferAssertState
      [] op = "processRequest" -> processRequestAssertState

HandlerState(op) ==
    CASE op = "processProposal" -> processProposalState
      [] op = "processOffer" -> processOfferState
      [] op = "processRequest" -> processRequestState

\* The store when the messages arrive: empty, or one exchange on the thread
\* that is waiting for a message of the other party.
InitRace ==
    /\ \/ /\ records = [a \in Agents |-> <<>>]
          /\ didcomm = [a \in Agents |-> <<>>]
       \/ \E connection \in ConnectionInputs, type \in {"proposal", "offer"} :
             /\ records = [a \in Agents |->
                             IF a = Self
                             THEN <<CredentialExchangeRecord(
                                        connection, RaceThread,
                                        IF type = "proposal" THEN ProposalSent
                                        ELSE OfferSent, None)>>
                             ELSE <<>>]
             /\ didcomm = [a \in Agents |->
                             IF a = Self
                             THEN <<[NoMessages EXCEPT
                                        ![type] = Some(Message(<<"hlindy/b">>,
                                                               Absent))]>>
                             ELSE <<>>]
    /\ config = Never
    /\ last = NoCall
    /\ used = <<>>
    /\ events = <<>>
    /\ step = 0
    /\ auto = NoEvaluation
    /\ race = NoneInFlight

\* The invocation goes on to its next await with these locals; nothing is
\* written.
Proceeds(p, invocation) ==
    /\ race' = [race EXCEPT ![p] = invocation]
    /\ UNCHANGED <<records, didcomm, last, used, events>>

\* The invocation throws.
Throws(p, id, error) ==
    /\ Throw(race[p].op, Self, id, error)
    /\ race' = [race EXCEPT ![p].pc = "done"]

\* A message is dispatched to its handler, on the connection of the messages
\* already in flight.
Arrives(p) ==
    /\ race[p].pc = "idle"
    /\ \E op \in FirstContactOps, connection \in ConnectionInputs,
          message \in InboundMessages :
          /\ \A q \in Invocations :
                race[q].pc # "idle" => race[q].connection = connection
          /\ Proceeds(p, Invocation("lookup", op, connection, message, Absent,
                                    <<>>))
    /\ UNCHANGED <<config, step, auto>>

\* await findByThreadAndConnectionId, then up to the next await: the check of
\* the format services and, when no record was found, the continuity
\* assertion and the construction of the new record.
Lookup(p) ==
    /\ race[p].pc = "lookup"
    /\ LET found == Matching(Self, RaceThread, race[p].connection)
           formatServices ==
               getFormatServicesFromMessage(race[p].message.formats)
           id == CHOOSE i \in found : TRUE
       IN  IF Cardinality(found) > 1 THEN Throws(p, 0, "lookup")
           ELSE IF NoSupportedFormats(formatServices)
           THEN Throws(p, IF found # {} THEN id ELSE 0, "formats")
           ELSE IF found # {}
           THEN Proceeds(p, [race[p] EXCEPT
                                !.pc = "assert", !.found = Some(id),
                                !.credentialRecord = Some(records[Self][id]),
                                !.formatServices = formatServices])
           ELSE \E continuityOk \in BOOLEAN :
                   IF ~continuityOk THEN Throws(p, 0, "continuity")
                   ELSE Proceeds(p, [race[p] EXCEPT
                                        !.pc = "coordinator",
                                        !.credentialRecord =
                                            Some(CredentialExchangeRecord(
                                                     race[p].connection,
                                                     RaceThread,
                                                     HandlerState(race[p].op),
                                                     None)),
                                        !.formatServices = formatServices])
    /\ UNCHANGED <<config, step, auto>>

\* After the two findAgentMessage reads: the assertions, on the record object
\* the lookup returned.
Asserts(p) ==
    /\ race[p].pc = "assert"
    /\ LET credentialRecord == Get(race[p].credentialRecord)
       IN  \E continuityOk \in BOOLEAN :
              IF credentialRecord.protocolVersion # "v2"
              THEN Throws(p, Get(race[p].found), "version")
              ELSE IF credentialRecord.state # HandlerAssertState(race[p].op)
              THEN Throws(p, Get(race[p].found), "state")
              ELSE IF ~continuityOk
              THEN Throws(p, Get(race[p].found), "continuity")
              ELSE Proceeds(p, [race[p] EXCEPT !.pc = "coordinator"])
    /\ UNCHANGED <<config, step, auto>>

\* await credentialFormatCoordinator.process*: the message is stored for the
\* record.  For a record that is not saved yet it is stored under the id of
\* that record, which no lookup returns before the save: it is kept with the
\* invocation until then.
Coordinates(p) ==
    /\ race[p].pc = "coordinator"
    /\ \E formatOk \in BOOLEAN :
          LET error == CoordinatorProcessError(race[p].formatServices,
                                               race[p].message.formats, formatOk)
          IN  IF error # "none"
              THEN Throws(p, IF IsPresent(race[p].found)
                             THEN Get(race[p].found) ELSE 0, error)
              ELSE IF IsPresent(race[p].found)
              THEN /\ StoreMessage(Self, Get(race[p].found),
                                   InboundType(race[p].op), race[p].message,
                                   race[p].formatServices)
                   /\ race' = [race EXCEPT ![p].pc = "persist"]
                   /\ UNCHANGED <<records, last, events>>
              ELSE Proceeds(p, [race[p] EXCEPT !.pc = "persist"])
    /\ UNCHANGED <<config, step, auto>>

\* Mutant: the write is refused when the store is no longer as the lookup of
\* the invocation found it.
Persists_Rechecks(p) ==
    /\ race[p].pc = "persist"
    /\ LET found == Matching(Self, RaceThread, race[p].connection)
           credentialRecord == Get(race[p].credentialRecord)
       IN  IF IsPresent(race[p].found)
           THEN IF records[Self][Get(race[p].found)] # credentialRecord
                THEN Throws(p, Get(race[p].found), "conflict")
                ELSE /\ updateState(race[p].op, Self, Get(race[p].found),
                                    credentialRecord, HandlerState(race[p].op))
                     /\ race' = [race EXCEPT ![p].pc = "done",
                                             ![p].emitted = Some(events'[1])]
                     /\ UNCHANGED <<didcomm, used>>
           ELSE IF found # {} THEN Throws(p, 0, "conflict")
           ELSE /\ SaveNew(race[p].op, Self, credentialRecord,
                           InboundType(race[p].op), race[p].message,
                           race[p].formatServices)
                /\ race' = [race EXCEPT ![p].pc = "done",
                                        ![p].emitted = Some(events'[1])]
    /\ UNCHANGED <<config, step, auto>>

\* await updateState (record found) or await credentialRepository.save and
\* the event (new record): the record object of the invocation is written as
\* it is, and the event carries the state that object had.
Persists(p) ==
    /\ race[p].pc = "persist"
    /\ LET credentialRecord == Get(race[p].credentialRecord)
       IN  IF IsPresent(race[p].found)
           THEN /\ updateState(race[p].op, Self, Get(race[p].found),
                               credentialRecord, HandlerState(race[p].op))
                /\ race' = [race EXCEPT ![p].pc = "done",
                                        ![p].emitted = Some(events'[1])]
                /\ UNCHANGED <<didcomm, used>>
           ELSE /\ SaveNew(race[p].op, Self, credentialRecord,
                           InboundType(race[p].op), race[p].message,
                           race[p].formatServices)
                /\ race' = [race EXCEPT ![p].pc = "done",
                                        ![p].emitted = Some(events'[1])]
    /\ UNCHANGED <<config, step, auto>>

NextRace ==
    \E p \in Invocations :
        \/ Arrives(p)
        \/ Lookup(p)
        \/ Asserts(p)
        \/ Coordinates(p)
        \/ Persists(p)

SpecRace == InitRace /\ [][NextRace]_vars

\* C21: the handlers take no lock and do not look again before they write.
\* An invocation that has passed its lookup and its assertions writes
\* whatever other invocations did to the store since: if it found no record
\* it saves a new one for the thread and connection, and if it found one it
\* sets the state of the handler and emits the event with the state it
\* asserted as previous state.  So two records for one unseen thread, and
\* one transition applied twice, are reachable.
C21_NoLocking ==
    [][\A p \in Invocations :
          (race[p].pc = "persist" /\ race'[p].pc = "done")
             => /\ last'.res = "ok"
                /\ IF IsPresent(race[p].found)
                   THEN LET id == Get(race[p].found)
                        IN  /\ records'[Self][id].state = HandlerState(race[p].op)
                            /\ Get(race'[p].emitted).previousState =
                                  HandlerAssertState(race[p].op)
                   ELSE LET n == Len(records'[Self])
                        IN  /\ n = Len(records[Self]) + 1
                            /\ records'[Self][n].threadId = RaceThread
                            /\ records'[Self][n].connectionId =
                                  race[p].connection]_vars

\* Two offers for one unseen thread were in flight together, and the store
\* holds two records for the thread and the connection.
C21_Witness ==
    /\ Len(records[Self]) = 2
    /\ records[Self][1].threadId = records[Self][2].threadId
    /\ records[Self][1].connectionId = records[Self][2].connectionId
    /\ records[Self][1].state = OfferReceived
    /\ records[Self][2].state = OfferReceived
    /\ \A p \in Invocations : race[p].pc = "done" /\ IsPresent(race[p].emitted)

\* Two requests for one exchange in offer-sent were in flight together: each
\* passed the assertion, and the transition to request-received was applied
\* twice, with two events that carry offer-sent as previous state.
C21_WitnessTwice ==
    /\ Len(records[Self]) = 1
    /\ records[Self][1].state = RequestReceived
    /\ \A p \in Invocations :
          /\ race[p].pc = "done" /\ race[p].op = "processRequest"
          /\ race[p].found = Some(1)
          /\ IsPresent(race[p].emitted)
          /\ Get(race[p].emitted).previousState = OfferSent
          /\ Get(race[p].emitted).credentialRecord.state = RequestReceived

-----------------------------------------------------------------------------
(* A record of another protocol version in the store.  The credential      *)
(* repository is shared with the v1 service, so a lookup by thread and     *)
(* connection, or a record handed in by the caller, may be a v1 record, in *)
(* any state, with any messages stored under its id.                       *)

ForeignVersion == "v1"

ForeignMessages ==
    [proposal : Optional({PairMessage}), offer : Optional({PairMessage}),
     request : Optional({PairMessage}), credential : Optional({PairMessage}),
     ack : {Absent}]

InitForeign ==
    /\ \E connection \in ConnectionInputs, state \in CredentialState,
          m \in ForeignMessages :
          /\ records = [a \in Agents |->
                          IF a = Self
                          THEN <<[CredentialExchangeRecord(connection, 1, state,
                                                           None)
                                    EXCEPT !.protocolVersion = ForeignVersion]>>
                          ELSE <<>>]
          /\ didcomm = [a \in Agents |-> IF a = Self THEN <<m>> ELSE <<>>]
    /\ config = Never
    /\ last = NoCall
    /\ used = <<>>
    /\ events = <<>>
    /\ step = 0
    /\ auto = NoEvaluation
    /\ race = NoneInFlight

NextForeign ==
    \/ CallProcessProposal
    \/ CallProcessOffer
    \/ CallProcessRequest
    \/ CallProcessCredential
    \/ CallProcessAck
    \/ CallAcceptProposal
    \/ CallNegotiateProposal
    \/ CallAcceptOffer
    \/ CallNegotiateOffer
    \/ CallAcceptRequest
    \/ CallAcceptCredential

SpecForeign == InitForeign /\ [][NextForeign]_vars

-----------------------------------------------------------------------------
(* Correlation of inbound messages.  The store holds one or two exchanges, *)
(* on any threads and connections, awaiting a message and holding the      *)
(* messages the handlers look up; messages arrive on any thread, over any  *)
(* connection or none.                                                     *)

CorrelationConnections == ConnIds \cup {None}

AwaitingStates == {ProposalSent, OfferSent, RequestSent, CredentialIssued}

AllMessages ==
    [t \in MessageTypes |-> IF t = "ack" THEN Absent ELSE Some(PairMessage)]

\* The exchanges a store can hold: the first on thread 1, the second (if any)
\* on any thread and connection but those of the first, both at one stage.
StoredExchanges ==
    {rs \in UNION {[1..n -> [threadId : ThreadIds,
                             connectionId : CorrelationConnections,
                             state : AwaitingStates]] : n \in 1..MaxPairRecords} :
        /\ rs[1].threadId = 1 /\ rs[1].connectionId # "c2"
        /\ \A i, j \in DOMAIN rs :
              /\ rs[i].state = rs[j].state
              /\ (/\ rs[i].threadId = rs[j].threadId
                  /\ rs[i].connectionId = rs[j].connectionId) => i = j}

InitCorrelation ==
    /\ \E rs \in StoredExchanges :
          /\ records = [a \in Agents |->
                          IF a = Self
                          THEN [i \in DOMAIN rs |->
                                   CredentialExchangeRecord(rs[i].connectionId,
                                                            rs[i].threadId,
                                                            rs[i].state, None)]
                          ELSE <<>>]
          /\ didcomm = [a \in Agents |->
                          IF a = Self THEN [i \in DOMAIN rs |-> AllMessages]
                          ELSE <<>>]
    /\ config = Never
    /\ last = NoCall
    /\ used = <<>>
    /\ events = <<>>
    /\ step = 0
    /\ auto = NoEvaluation
    /\ race = NoneInFlight

CorrelatesMessage ==
    /\ \E op \in AttachmentOps, threadId \in ThreadIds,
          connection \in CorrelationConnections :
          /\ Matching(Self, threadId, connection) # {} \/ CanCreatePair
          /\ Handles(op, threadId, connection, PairMessage)
    /\ Untouched

CorrelatesAck ==
    /\ \E threadId \in ThreadIds, connection \in CorrelationConnections,
          continuityOk \in BOOLEAN :
          processAck(Self, threadId, connection, continuityOk)
    /\ Untouched

CorrelatesProblemReport ==
    /\ \E threadId \in ThreadIds, connection \in CorrelationConnections,
          description \in DescriptionInputs :
          processProblemReport(Self, threadId, connection, description)
    /\ Untouched

NextCorrelation ==
    \/ CorrelatesMessage
    \/ CorrelatesAck
    \/ CorrelatesProblemReport

SpecCorrelation == InitCorrelation /\ [][NextCorrelation]_vars

\* The step is the handler `op` on a message of this thread and connection.
Receives(op, threadId, connection) ==
    /\ last'.op = op
    /\ IF op \in AttachmentOps
       THEN Handles(op, threadId, connection, PairMessage)
       ELSE IF op = "processAck"
       THEN \E continuityOk \in BOOLEAN :
               processAck(Self, threadId, connection, continuityOk)
       ELSE \E description \in DescriptionInputs :
               processProblemReport(Self, threadId, connection, description)

\* What a message of this thread and connection is correlated with: the
\* record the handler worked on, and every record or stored message that
\* changed, has the thread of the message and, when the message came over a
\* connection, that connection; and a record that alone has the thread (and
\* the connection, if any) of the message is the record the handler worked
\* on.
Correlated(threadId, connection) ==
    LET fits(i) ==
            /\ records[Self][i].threadId = threadId
            /\ connection # None => records[Self][i].connectionId = connection
        fitting == {i \in Ids(Self) : fits(i)}
    IN  /\ last'.id \in Ids(Self) => fits(last'.id)
        /\ \A i \in Ids(Self) :
              (records'[Self][i] # records[Self][i]
                  \/ didcomm'[Self][i] # didcomm[Self][i]) => fits(i)
        /\ Cardinality(fitting) = 1 => last'.id \in fitting
        /\ fitting = {} => last'.id \notin Ids(Self)

\* C23: an inbound message that arrives on connection c with thread id t is
\* matched only to a record whose threadId is t and whose connectionId is c,
\* and a record with the same threadId on another connection is neither
\* matched nor modified; an inbound message with no connection is matched
\* by threadId alone.
C23_Correlation ==
    [][\A op \in AttachmentOps \cup {"processAck", "processProblemReport"},
          threadId \in ThreadIds, connection \in CorrelationConnections :
          Receives(op, threadId, connection) => Correlated(threadId, connection)]_vars

\* A request on thread 1 over connection c2 was matched to the second
\* record, while the first record, on the same thread over connection c1
\* and in the same state, is as it was.
C23_Witness ==
    /\ last.op = "processRequest" /\ last.res = "ok" /\ last.id = 2
    /\ Len(records[Self]) = 2
    /\ records[Self][1].threadId = 1 /\ records[Self][2].threadId = 1
    /\ records[Self][1].connectionId = "c1"
    /\ records[Self][2].connectionId = "c2"
    /\ records[Self][1].state = OfferSent
    /\ records[Self][2].state = RequestReceived

\* An offer without a connection was matched by its thread alone to a
\* record that has a connection.
C23_WitnessNoConnection ==
    /\ last.op = "processOffer" /\ last.res = "ok" /\ last.id = 1
    /\ Len(events) = 1 /\ events[1].previousState = ProposalSent
    /\ records[Self][1].connectionId = "c1"
    /\ records[Self][1].state = OfferReceived
    /\ Len(records[Self]) = 1

-----------------------------------------------------------------------------
(* State-changed events.                                                   *)

\* The operations that create a record or change the state of one.
StateChangingOps == TransitionOps \cup CreateOps

\* C24: every successful operation that creates a record or changes the
\* state of one emits exactly one state-changed event; when the event is
\* out the store holds the record as the event carries it, in its new
\* state, and the previous state of the event is the state the record had
\* in the store before the operation, none for a record the operation
\* created.  A failed operation emits no event, and neither does the
\* recording of a problem report, which changes no state.
C24_OneEventAfterPersist ==
    [][IF last'.res = "ok" /\ last'.op \in StateChangingOps
       THEN LET a == last'.agent
                id == last'.id
            IN  /\ Len(events') = 1
                /\ events'[1].id = id
                /\ events'[1].credentialRecord = records'[a][id]
                /\ events'[1].previousState =
                      IF id \in Ids(a) THEN records[a][id].state ELSE None
                /\ id \in Ids(a) => records'[a][id].state # records[a][id].state
                /\ last'.saves + last'.updates = 1
       ELSE /\ events' = <<>>
            /\ \A a \in Agents : \A id \in Ids(a) :
                  records'[a][id].state = records[a][id].state]_vars

\* acceptOffer, called with an auto-accept setting, has emitted its event:
\* previous state offer-received, and the record as it is stored, in
\* request-sent with that setting.
C24_Witness ==
    /\ last.op = "acceptOffer" /\ last.res = "ok" /\ last.updates = 1
    /\ Len(events) = 1
    /\ events[1].previousState = OfferReceived
    /\ events[1].credentialRecord = records[Self][last.id]
    /\ records[Self][last.id].state = RequestSent
    /\ records[Self][last.id].autoAcceptCredential = ContentApproved

\* createOffer has emitted the event of the record it saved, with no
\* previous state.
C24_WitnessCreated ==
    /\ last.op = "createOffer" /\ last.res = "ok" /\ last.saves = 1
    /\ Len(events) = 1
    /\ events[1].previousState = None
    /\ events[1].credentialRecord = records[Self][last.id]
    /\ records[Self][last.id].state = OfferSent

-----------------------------------------------------------------------------
(* getFormatData between the operations that answer a message: the         *)
(* exchange of SpecAccept, read at any moment.                             *)

NextData ==
    \/ AnswerProposal
    \/ AnswerOffer
    \/ AnswerRequest
    \/ GetFormatData

SpecData == InitAccept /\ [][NextData]_vars

DataTypes == {"proposal", "offer", "request", "credential"}

-----------------------------------------------------------------------------
(* Terminal states.                                                        *)

\* No record is removed, and a record that is done stays done.
DoneIsRetained ==
    \A a \in Agents : \A id \in Ids(a) :
        /\ id <= Len(records'[a])
        /\ records[a][id].state = Done => records'[a][id].state = Done

\* The last call was one of these operations on a record that was done.
OnDoneRecord(ops) ==
    /\ last'.op \in ops
    /\ last'.id \in Ids(last'.agent)
    /\ records[last'.agent][last'.id].state = Done

\* C26 as stated: no operation deletes a record, and once a record is done
\* every process*, accept* and negotiate* operation on it fails,
\* processProblemReport with them, and its state stays done.
C26_DoneRejectsAll ==
    [][/\ DoneIsRetained
       /\ OnDoneRecord(TransitionOps \cup {"processProblemReport"})
             => last'.res = "error"]_vars

\* C26 amended: no operation deletes a record and a record that is done
\* stays done; every operation of the transition table on it fails and
\* writes nothing, while processProblemReport on it succeeds, writes the
\* error message and leaves the state done.
C26_DoneIsFinal ==
    [][/\ DoneIsRetained
       /\ OnDoneRecord(TransitionOps)
             => /\ last'.res = "error"
                /\ records' = records
                /\ didcomm' = didcomm
                /\ events' = <<>>
       /\ OnDoneRecord({"processProblemReport"})
             => /\ last'.res = "ok"
                /\ records'[last'.agent][last'.id].state = Done]_vars

\* negotiateOffer was refused on a record that acceptCredential had taken
\* to done.
C26_Witness ==
    /\ last.op = "negotiateOffer" /\ last.error = "state"
    /\ records[Self][last.id].state = Done
    /\ IsPresent(didcomm[Self][last.id].credential)
    /\ IsPresent(didcomm[Self][last.id].offer)

-----------------------------------------------------------------------------
(* The auto-accept evaluation under the policy contentApproved (SpecAuto). *)

\* The earlier stored message an evaluation takes its format services
\* from: the offer for a proposal and for a request, the proposal for an
\* offer, the request for a credential.
Authoritative(fn) ==
    CASE fn \in {"shouldAutoRespondToProposal", "shouldAutoRespondToRequest"} ->
            didcomm[Self][1].offer
      [] fn = "shouldAutoRespondToOffer" -> didcomm[Self][1].proposal
      [] fn = "shouldAutoRespondToCredential" -> didcomm[Self][1].request

\* C27: under the policy contentApproved an evaluation whose earlier message
\* is not stored (no offer for a proposal or a request, no proposal for an
\* offer, no request for a credential) returns false, and has resolved no
\* format service and invoked no predicate.
C27_MissingPredecessorIsFalse ==
    (/\ auto.fn \in AutoFns
     /\ EffectivePolicy = ContentApproved
     /\ ~IsPresent(Authoritative(auto.fn)))
        => /\ auto.result = "false"
           /\ auto.formatServices = <<>>
           /\ auto.calls = <<>>

\* A request was evaluated on an exchange that holds a proposal and no
\* offer: the answer is false and no format service was asked.
C27_Witness ==
    /\ auto.fn = "shouldAutoRespondToRequest" /\ auto.result = "false"
    /\ auto.calls = <<>>
    /\ EffectivePolicy = ContentApproved
    /\ IsPresent(didcomm[Self][1].proposal)
    /\ ~IsPresent(didcomm[Self][1].offer)

\* A credential was evaluated on an exchange without a request.
C27_WitnessCredential ==
    /\ auto.fn = "shouldAutoRespondToCredential" /\ auto.result = "false"
    /\ auto.calls = <<>>
    /\ EffectivePolicy = ContentApproved
    /\ IsPresent(didcomm[Self][1].offer)
    /\ ~IsPresent(didcomm[Self][1].request)

\* C28: under the policy contentApproved the format services of an
\* evaluation are those resolved from the formats of the earlier stored
\* message (the offer for a proposal and for a request, the proposal for an
\* offer, the request for a credential), in that order, whatever the formats
\* of the message under evaluation; the predicates invoked are theirs, in
\* that order, and all of them when the evaluation returns true.
C28_AuthoritativeFormats ==
    [][\A fn \in AutoFns, f \in IncomingFormats, p \in IncomingPreviews,
          answers \in Answers :
          (/\ auto'.fn = fn
           /\ EffectivePolicy = ContentApproved
           /\ IsPresent(Authoritative(fn))
           /\ Evaluates(fn, Message(f, p), answers))
             => LET resolved ==
                        getFormatServicesFromMessage(Get(Authoritative(fn)).formats)
                IN  /\ auto'.formatServices = resolved
                    /\ Len(auto'.calls) <= Len(resolved)
                    /\ \A i \in 1..Len(auto'.calls) :
                          auto'.calls[i].service = resolved[i]
                    /\ auto'.result = "true"
                          => Len(auto'.calls) = Len(resolved)]_vars

\* An offer was evaluated against a stored proposal whose formats name the
\* second service first: both predicates were invoked, in the order of the
\* proposal, which is not the order of the formats of any incoming offer.
C28_Witness ==
    /\ auto.fn = "shouldAutoRespondToOffer"
    /\ EffectivePolicy = ContentApproved
    /\ IsPresent(didcomm[Self][1].proposal)
    /\ Get(didcomm[Self][1].proposal).formats = <<"aries/ld", "hlindy/a">>
    /\ auto.formatServices = <<"jsonld", "indy">>
    /\ Len(auto.calls) = 2
    /\ auto.calls[1].service = "jsonld" /\ auto.calls[2].service = "indy"
    /\ auto.result = "true"

\* C29: the loop over the format services stops at the first predicate that
\* returns false: a predicate that returned false is the last one invoked,
\* the evaluation returns false, and the previews are not compared.
C29_ShortCircuitOnFalse ==
    auto.fn \in AutoFns
        => \A i \in 1..Len(auto.calls) :
              ~auto.calls[i].result
                  => /\ i = Len(auto.calls)
                     /\ auto.result = "false"
                     /\ ~auto.compared

\* Two format services were resolved and both messages carry a preview; the
\* first predicate returned false and nothing else was done.
C29_Witness ==
    /\ auto.fn = "shouldAutoRespondToOffer"
    /\ Len(auto.formatServices) = 2
    /\ Len(auto.calls) = 1 /\ ~auto.calls[1].result
    /\ auto.result = "false" /\ ~auto.compared
    /\ IsPresent(didcomm[Self][1].proposal)
    /\ IsPresent(Get(didcomm[Self][1].proposal).preview)

\* The predicates all returned true and the previews were compared.
C29_WitnessCompared ==
    /\ auto.fn = "shouldAutoRespondToOffer"
    /\ Len(auto.calls) = 2
    /\ auto.calls[1].result /\ auto.calls[2].result
    /\ auto.compared

\* C30: every shouldAutoRespondTo* evaluation returns true or false; none
\* fails with an error, whatever attachments the message under evaluation
\* carries.
C30_NeverRaises ==
    auto.fn \in AutoFns => auto.result \in {"true", "false"}

-----------------------------------------------------------------------------
(* Caller formats with keys that are not registered.  The operations that  *)
(* take their format services from the caller only, on an empty store or   *)
(* on a record that awaits an answer on a connection.                      *)

\* The keys of the caller's credentialFormats object: none, an unregistered
\* key alone, registered keys alone and among unregistered ones.
KeyInputs ==
    {<<>>, <<"other">>, <<"jsonld">>, <<"other", "indy">>,
     <<"jsonld", "other", "indy">>}

InitFormats ==
    /\ \/ /\ records = [a \in Agents |-> <<>>]
          /\ didcomm = [a \in Agents |-> <<>>]
       \/ \E op \in NegotiateOps :
             /\ records = [a \in Agents |->
                             IF a = Self
                             THEN <<CredentialExchangeRecord(
                                        "c1", 1, NegotiateAssertState(op), None)>>
                             ELSE <<>>]
             /\ didcomm = [a \in Agents |->
                             IF a = Self
                             THEN <<[NoMessages EXCEPT
                                        ![IF op = "negotiateProposal"
                                          THEN "proposal" ELSE "offer"] =
                                            Some(PairMessage)]>>
                             ELSE <<>>]
    /\ config = Never
    /\ last = NoCall
    /\ used = <<>>
    /\ events = <<>>
    /\ step = 0
    /\ auto = NoEvaluation
    /\ race = NoneInFlight

\* The step is this create operation with these caller formats.
CreatesWith(op, connection, credentialFormats, formatOk) ==
    CASE op = "createProposal" ->
            createProposal(Self, connection, credentialFormats, None, Absent,
                           formatOk)
      [] op = "createOffer" ->
            createOffer(Self, connection, credentialFormats, None, Absent,
                        formatOk)
      [] op = "createRequest" ->
            createRequest(Self, connection, credentialFormats, None, formatOk)

FormatsCreate ==
    /\ CanCreatePair
    /\ \E op \in CreateOps, connection \in ConnIds,
          credentialFormats \in KeyInputs, formatOk \in BOOLEAN :
          CreatesWith(op, connection, credentialFormats, formatOk)
    /\ Untouched

FormatsNegotiate ==
    /\ \E op \in NegotiateOps, id \in Ids(Self),
          credentialFormats \in KeyInputs, formatOk \in BOOLEAN :
          Negotiates(op, id, credentialFormats, None, formatOk)
    /\ Untouched

NextFormats ==
    \/ FormatsCreate
    \/ FormatsNegotiate

SpecFormats == InitFormats /\ [][NextFormats]_vars

\* The registered services among the caller's keys.
Registered(credentialFormats) == Range(credentialFormats) \cap formatServiceMap

\* What C31 states of a call with these caller formats, `ready` telling
\* that nothing but the formats stands against the call.
FormatKeysDecide(credentialFormats, ready) ==
    LET resolved == Registered(credentialFormats)
    IN  /\ last'.error = "formats" => resolved = {}
        /\ resolved = {} => last'.res = "error"
        /\ (resolved # {} /\ ready) => last'.res = "ok"
        /\ last'.res = "ok"
              => /\ Range(used') = resolved
                 /\ Len(used') = Cardinality(resolved)

\* C31: createProposal, createOffer, createRequest, negotiateProposal and
\* negotiateOffer skip the caller's keys that are not registered: the call
\* fails for want of formats only when no key is registered, succeeds when
\* one is (the record being in the legal state for a negotiation and the
\* format services building their payloads), and hands the coordinator
\* exactly the registered services among the keys, each once.
C31_UnknownKeySkipped ==
    [][\A credentialFormats \in KeyInputs, formatOk \in BOOLEAN :
          /\ \A op \in CreateOps, connection \in ConnIds :
                (/\ last'.op = op
                 /\ CreatesWith(op, connection, credentialFormats, formatOk))
                   => FormatKeysDecide(credentialFormats, formatOk)
          /\ \A op \in NegotiateOps, id \in Ids(Self) :
                (/\ last'.op = op
                 /\ Negotiates(op, id, credentialFormats, None, formatOk))
                   => FormatKeysDecide(
                          credentialFormats,
                          /\ formatOk
                          /\ records[Self][id].state = NegotiateAssertState(op))]_vars

\* negotiateOffer was called with the keys jsonld, other, indy and built its
\* proposal with the two registered services, in the order of the keys.
C31_Witness ==
    /\ last.op = "negotiateOffer" /\ last.res = "ok"
    /\ used = <<"jsonld", "indy">>
    /\ Get(didcomm[Self][last.id].proposal).formats = <<"aries/ld", "hlindy/b">>

\* createOffer was refused with a key that is not registered as its only key.
C31_WitnessRefused ==
    /\ last.op = "createOffer" /\ last.error = "formats"
    /\ records[Self] = <<>>

-----------------------------------------------------------------------------
(* Failures of the format services.                                        *)

\* The errors of a call that failed inside the coordinator: a format service
\* found no attachment of its own, or refused or could not build a payload.
CoordinatorErrors == {"attachment", "format-service"}

\* C32: a call that fails inside the coordinator has persisted nothing: the
\* records are as they were (no state advanced, no record saved), so are the
\* stored messages, the repository was not written to and no event was
\* emitted.
C32_FormatFailureBeforePersistence ==
    [][(last'.res = "error" /\ last'.error \in CoordinatorErrors)
          => /\ records' = records
             /\ didcomm' = didcomm
             /\ last'.saves = 0 /\ last'.updates = 0
             /\ events' = <<>>]_vars

\* processCredential failed in a format service on a record in request-sent,
\* which is still in request-sent and holds no credential.
C32_Witness ==
    /\ last.op = "processCredential" /\ last.error = "format-service"
    /\ last.id \in Ids(Self)
    /\ records[Self][last.id].state = RequestSent
    /\ ~IsPresent(didcomm[Self][last.id].credential)

\* A first contact failed in a format service and no record was saved.
C32_WitnessFirstContact ==
    /\ last.op = "processOffer" /\ last.error = "format-service"
    /\ records[Self] = <<>>

\* An initiating operation failed in a format service and no record was saved.
C32_WitnessCreate ==
    /\ last.op = "createProposal" /\ last.error = "format-service"
    /\ records[Self] = <<>>

-----------------------------------------------------------------------------
(* Exchanges side by side in one store.                                    *)

\* What lets a transition operation on the record it addresses or found go
\* as far as its collaborators: the state of that record and, for a
\* negotiation, its connection.
OwnPrecondition(op, id) ==
    /\ records[Self][id].state = TransitionTable[op][1]
    /\ op \in NegotiateOps => HasConnection(records[Self][id])

\* C33: an operation changes at most the record it addresses, finds or
\* creates and the messages stored for that record; no record is removed;
\* and whether a transition operation succeeds on its record (or fails in
\* a collaborator) is decided by that record alone, whatever the other
\* exchanges of the store.
C33_OnlyThatExchange ==
    [][/\ Len(records'[Self]) >= Len(records[Self])
       /\ \A i \in Ids(Self) :
             i # last'.id => /\ records'[Self][i] = records[Self][i]
                             /\ didcomm'[Self][i] = didcomm[Self][i]
       /\ OnExistingRecord
             => ((last'.res = "ok" \/ last'.error \in CollaboratorErrors)
                    <=> OwnPrecondition(last'.op, last'.id))]_vars

\* acceptCredential succeeded on the second exchange of a store whose first
\* exchange is still in request-sent, and left that one alone.
C33_Witness ==
    /\ last.op = "acceptCredential" /\ last.res = "ok" /\ last.id = 2
    /\ Len(records[Self]) = 2
    /\ records[Self][1].state = RequestSent
    /\ records[Self][2].state = Done

-----------------------------------------------------------------------------
(* Negotiation between two instances over a connection: the issuer offers, *)
(* the holder answers each offer with a counter-proposal and the issuer    *)
(* each counter-proposal with a counter-offer.  `step` counts the          *)
(* operations called: two to open the exchange, then four a round.         *)

NegotiationConnection == "c1"

LastStep == 2 + 4 * MaxRounds

\* The rounds of counter-proposal and counter-offer gone through.
Rounds == IF step < 2 THEN 0 ELSE (step - 2) \div 4

NegotiationOpens ==
    /\ step = 0
    /\ \E credentialFormats \in ScenarioFormats :
          createOffer(Issuer, NegotiationConnection, credentialFormats, None,
                      Absent, TRUE)
    /\ step' = 1
    /\ UNCHANGED <<config, auto, race>>

HolderReceivesOffer ==
    /\ step % 4 = 1 /\ step < LastStep
    /\ processOffer(Holder, records[Issuer][1].threadId, NegotiationConnection,
                    Sent(Issuer, "offer"), TRUE, TRUE)
    /\ step' = step + 1
    /\ UNCHANGED <<config, auto, race>>

HolderCounterProposes ==
    /\ step % 4 = 2 /\ step < LastStep
    /\ \E credentialFormats \in ScenarioFormats,
          autoAcceptCredential \in AutoAcceptInputs :
          negotiateOffer(Holder, 1, credentialFormats, autoAcceptCredential,
                         Absent, TRUE)
    /\ step' = step + 1
    /\ UNCHANGED <<config, auto, race>>

IssuerReceivesProposal ==
    /\ step % 4 = 3 /\ step < LastStep
    /\ processProposal(Issuer, records[Holder][1].threadId,
                       NegotiationConnection, Sent(Holder, "proposal"), TRUE, TRUE)
    /\ step' = step + 1
    /\ UNCHANGED <<config, auto, race>>

IssuerCounterOffers ==
    /\ step % 4 = 0 /\ step > 0 /\ step < LastStep
    /\ \E credentialFormats \in ScenarioFormats,
          autoAcceptCredential \in AutoAcceptInputs :
          negotiateProposal(Issuer, 1, credentialFormats, autoAcceptCredential,
                            Absent, TRUE)
    /\ step' = step + 1
    /\ UNCHANGED <<config, auto, race>>

NextNegotiation ==
    \/ NegotiationOpens
    \/ HolderReceivesOffer
    \/ HolderCounterProposes
    \/ IssuerReceivesProposal
    \/ IssuerCounterOffers

SpecNegotiation == Init /\ [][NextNegotiation]_vars

\* The states of the issuer's and of the holder's record after `n` operations.
NegotiationPath(n) ==
    CASE n = 1 -> <<OfferSent, None>>
      [] n % 4 = 2 -> <<OfferSent, OfferReceived>>
      [] n % 4 = 3 -> <<OfferSent, ProposalSent>>
      [] n % 4 = 0 -> <<ProposalReceived, ProposalSent>>
      [] OTHER -> <<OfferSent, ProposalSent>>

\* C34: in a negotiation over a connection every operation succeeds, round
\* after round: the issuer's record goes offer-sent, proposal-received,
\* offer-sent and the holder's offer-received, proposal-sent,
\* offer-received, each side keeping its one record, however many rounds
\* came before.
C34_NegotiationGoesOn ==
    step > 0 =>
        /\ last.res = "ok"
        /\ <<StateOf(Issuer), StateOf(Holder)>> = NegotiationPath(step)
        /\ Len(records[Issuer]) = 1
        /\ Len(records[Holder]) <= 1

\* The negotiation has gone through as many rounds as the bound allows and
\* the holder has the last counter-offer.
C34_Witness ==
    /\ Rounds = MaxRounds
    /\ last.op = "processOffer" /\ last.res = "ok"
    /\ StateOf(Issuer) = OfferSent /\ StateOf(Holder) = OfferReceived

-----------------------------------------------------------------------------
(* The edges out of proposal-received and offer-received.                  *)

\* C35: the operation that re-negotiates a received proposal,
\* negotiateProposal, moves the record from proposal-received to
\* proposal-sent.
C35_RenegotiationToProposalSent ==
    [][(/\ last'.op = "negotiateProposal" /\ last'.res = "ok"
        /\ records[Self][last'.id].state = ProposalReceived)
          => records'[Self][last'.id].state = ProposalSent]_vars

\* The edges out of proposal-received and offer-received that the operations
\* take: to offer-sent, and to request-sent or proposal-sent.
C35_NegotiationEdgesTaken ==
    [][\A id \in Ids(Self) :
          LET from == records[Self][id].state
              to == records'[Self][id].state
          IN  (from \in {ProposalReceived, OfferReceived} /\ to # from)
                 => \/ from = ProposalReceived /\ to = OfferSent
                    \/ from = OfferReceived /\ to \in {RequestSent, ProposalSent}]_vars

-----------------------------------------------------------------------------
(* Two cooperating instances over a connection: one of them starts an      *)
(* exchange, every message sent is delivered to the other, and every       *)
(* message received is answered with the accept operation for it.  The     *)
(* calls on a record come one after the other.                             *)

\* The holder proposes or requests, or the issuer offers.
StartsExchange ==
    /\ StateOf(Issuer) = None /\ StateOf(Holder) = None
    /\ \E credentialFormats \in ScenarioFormats,
          autoAcceptCredential \in ScenarioAutoAccept :
          \/ createProposal(Holder, NegotiationConnection, credentialFormats,
                            autoAcceptCredential, Absent, TRUE)
          \/ createOffer(Issuer, NegotiationConnection, credentialFormats,
                         autoAcceptCredential, Absent, TRUE)
          \/ createRequest(Holder, NegotiationConnection, credentialFormats,
                           autoAcceptCredential, TRUE)
    /\ Untouched

DeliversProposal ==
    /\ StateOf(Holder) = ProposalSent /\ StateOf(Issuer) = None
    /\ processProposal(Issuer, records[Holder][1].threadId,
                       NegotiationConnection, Sent(Holder, "proposal"), TRUE, TRUE)
    /\ Untouched

AnswersProposal ==
    /\ StateOf(Issuer) = ProposalReceived
    /\ acceptProposal(Issuer, 1, <<>>, None, Absent, TRUE)
    /\ Untouched

DeliversOffer ==
    /\ StateOf(Issuer) = OfferSent /\ StateOf(Holder) \in {None, ProposalSent}
    /\ processOffer(Holder, records[Issuer][1].threadId, NegotiationConnection,
                    Sent(Issuer, "offer"), TRUE, TRUE)
    /\ Untouched

AnswersOffer ==
    /\ StateOf(Holder) = OfferReceived
    /\ acceptOffer(Holder, 1, <<>>, None, TRUE)
    /\ Untouched

DeliversRequest ==
    /\ StateOf(Holder) = RequestSent /\ StateOf(Issuer) \in {None, OfferSent}
    /\ processRequest(Issuer, records[Holder][1].threadId,
                      NegotiationConnection, Sent(Holder, "request"), TRUE, TRUE)
    /\ Untouched

AnswersRequest ==
    /\ StateOf(Issuer) = RequestReceived
    /\ acceptRequest(Issuer, 1, <<>>, None, TRUE)
    /\ Untouched

DeliversCredential ==
    /\ StateOf(Issuer) = CredentialIssued /\ StateOf(Holder) = RequestSent
    /\ processCredential(Holder, records[Issuer][1].threadId,
                         NegotiationConnection, Sent(Issuer, "credential"),
                         TRUE, TRUE)
    /\ Untouched

AnswersCredential ==
    /\ StateOf(Holder) = CredentialReceived
    /\ acceptCredential(Holder, 1)
    /\ Untouched

DeliversAck ==
    /\ StateOf(Holder) = Done /\ StateOf(Issuer) = CredentialIssued
    /\ processAck(Issuer, records[Holder][1].threadId, NegotiationConnection,
                  TRUE)
    /\ Untouched

NextProgress ==
    \/ StartsExchange
    \/ DeliversProposal
    \/ AnswersProposal
    \/ DeliversOffer
    \/ AnswersOffer
    \/ DeliversRequest
    \/ AnswersRequest
    \/ DeliversCredential
    \/ AnswersCredential
    \/ DeliversAck

\* Cooperation: a message that can be delivered is delivered and a message
\* that can be answered is answered.
SpecProgress == Init /\ [][NextProgress]_vars /\ WF_vars(NextProgress)

\* C36: under cooperation an exchange that one of the instances has
\* started reaches done on the issuer's record and on the holder's.
C36_Progress ==
    (StateOf(Issuer) # None \/ StateOf(Holder) # None)
        ~> (StateOf(Issuer) = Done /\ StateOf(Holder) = Done)

\* An exchange the holder started with a request is done on both sides.
C36_Witness ==
    /\ StateOf(Issuer) = Done /\ StateOf(Holder) = Done
    /\ last.op = "processAck" /\ last.res = "ok"
    /\ ~IsPresent(didcomm[Holder][1].offer)
    /\ ~IsPresent(didcomm[Holder][1].proposal)

\* An exchange the holder started with a proposal is done on both sides.
C36_WitnessProposal ==
    /\ StateOf(Issuer) = Done /\ StateOf(Holder) = Done
    /\ IsPresent(didcomm[Holder][1].proposal)
    /\ IsPresent(didcomm[Issuer][1].proposal)

-----------------------------------------------------------------------------
(* The role of a record.                                                   *)

IssuerStates == {OfferSent, ProposalReceived, RequestReceived, CredentialIssued}

HolderStates == {ProposalSent, OfferReceived, RequestSent, CredentialReceived}

\* The role a state belongs to; none for done and abandoned.
Role(state) ==
    CASE state \in IssuerStates -> "issuer"
      [] state \in HolderStates -> "holder"
      [] OTHER -> None

\* C37: no operation takes a record from a state of one role to a state of
\* the other, and none takes a record out of done or abandoned; so a record
\* that has been in a state of the issuer is never in a state of the holder
\* afterwards, and conversely.
C37_RoleKept ==
    [][\A a \in Agents : \A id \in Ids(a) :
          LET from == Role(records[a][id].state)
              to == Role(records'[a][id].state)
          IN  /\ id <= Len(records'[a])
              /\ to \in {from, None}]_vars

\* A record of the issuer has changed state within its role: a
\* counter-proposal was received on an offer sent.
C37_Witness ==
    /\ last.op = "processProposal" /\ last.res = "ok"
    /\ Len(events) = 1
    /\ Role(events[1].previousState) = "issuer"
    /\ Role(records[last.agent][last.id].state) = "issuer"
    /\ events[1].previousState # records[last.agent][last.id].state

-----------------------------------------------------------------------------
(* Messages that presuppose an exchange.                                   *)

\* The call was refused by the lookup and left everything as it was.
RefusedByLookup ==
    /\ last'.res = "error" /\ last'.error = "lookup"
    /\ records' = records
    /\ didcomm' = didcomm
    /\ events' = <<>>

\* C38: a credential or an acknowledgement whose thread id and connection
\* match no record is refused by the lookup: no record is made, and the
\* records, the stored messages and the event stream are as they were.
C38_NoRecordNoProcessing ==
    [][/\ last'.op = "processCredential"
          => \A threadId \in ThreadIds, connection \in ConnectionInputs,
                message \in CredentialMessages :
                (/\ Matching(Self, threadId, connection) = {}
                 /\ Handles("processCredential", threadId, connection, message))
                   => RefusedByLookup
       /\ last'.op = "processAck"
          => \A threadId \in ThreadIds, connection \in ConnectionInputs,
                continuityOk \in BOOLEAN :
                (/\ Matching(Self, threadId, connection) = {}
                 /\ processAck(Self, threadId, connection, continuityOk))
                   => RefusedByLookup]_vars

\* An acknowledgement was refused by the lookup although the store holds a
\* record in credential-issued: it came on another thread or connection.
C38_Witness ==
    /\ last.op = "processAck" /\ last.error = "lookup" /\ last.id = 0
    /\ Len(records[Self]) = 1
    /\ records[Self][1].state = CredentialIssued

\* A credential was refused by the lookup on an empty store.
C38_WitnessCredential ==
    /\ last.op = "processCredential" /\ last.error = "lookup"
    /\ records[Self] = <<>>

-----------------------------------------------------------------------------
(* The thread and the connection of a record.                              *)

C39_OnlyAckRewrites ==
    [][\A a \in Agents : \A id \in Ids(a) :
          /\ records'[a][id].threadId = records[a][id].threadId
          /\ records'[a][id].connectionId # records[a][id].connectionId
                => /\ last'.op = "processAck" /\ last'.res = "ok" /\ last'.id = id
                   /\ records'[a][id].connectionId = None]_vars

-----------------------------------------------------------------------------
(* The messages stored with a record.                                      *)

\* The stored messages that the operations on a record in that state look up.
RequiredMessages(state) ==
    IF state = RequestSent THEN {"request"}
    ELSE IF state = CredentialIssued THEN {"request", "credential"}
    ELSE {}

\* C40: a record in request-sent has a stored request message, a record in
\* credential-issued has a stored request and a stored credential message;
\* so processCredential and processAck do not fail on a message lookup for
\* a record that is in the state they assert.
C40_MessagesStored ==
    /\ \A a \in Agents : \A id \in Ids(a) :
          \A type \in RequiredMessages(records[a][id].state) :
             IsPresent(findAgentMessage(a, id, type))
    /\ last.res = "error" /\ last.error = "message" /\ last.id # 0
          => /\ last.op = "processCredential"
                   => records[last.agent][last.id].state # processCredentialAssertState
             /\ last.op = "processAck"
                   => records[last.agent][last.id].state # processAckAssertState

\* A credential was processed for a record in request-sent and an
\* acknowledgement for one in credential-issued: the lookups found the
\* messages.
C40_Witness ==
    /\ last.op = "processAck" /\ last.res = "ok"
    /\ IsPresent(findAgentMessage(last.agent, last.id, "request"))
    /\ IsPresent(findAgentMessage(last.agent, last.id, "credential"))

C40_WitnessCredential ==
    /\ last.op = "processCredential" /\ last.res = "ok"
    /\ IsPresent(findAgentMessage(last.agent, last.id, "request"))

\* The lookup does fail for a record in another state: an acknowledgement
\* on the thread of an offer that was never answered.
C40_WitnessNoMessage ==
    /\ last.op = "processAck" /\ last.error = "message"
    /\ records[last.agent][last.id].state = OfferSent

====
